---- MODULE Spec2Model ----
(***************************************************************************)
(* A model of gearbox.py: the process-wide registry (allnames), the        *)
(* declaration pass (gearstyle, axle, gearpair, axlecomp) and the          *)
(* generation pass, together with the closed-form pitch solver.            *)
(*                                                                         *)
(* Units.  Python floats are modelled in fixed point:                      *)
(*   - z values, radii, clearances and the circular pitch are integers     *)
(*     counting 1/1000 of a unit (FIDGET = .001 is 1, PADFIDGET = .01 is   *)
(*     10);                                                                *)
(*   - angles are integers counting 1/1000 of a degree;                    *)
(*   - axle x/y positions are whole units, drawn from a grid on which      *)
(*     every distance is a whole number, so distancexy is exact.           *)
(* Divisions round towards minus infinity (\div); the square root is the   *)
(* integer square root of the radicand scaled as far as 31 bits allow.     *)
(*                                                                         *)
(* Python objects live in per-class heaps (sequences); an object reference *)
(* is a record [cls, ix].  An exception leaves every assignment made       *)
(* before it in place, so each constructor is modelled step by step and a  *)
(* partially constructed object records how far it got (stage).            *)
(***************************************************************************)
EXTENDS Integers, Sequences, FiniteSets, TLC

VARIABLES allnames, styles, axles, pairs, comps, plates, extras, result, ndecl

vars == <<allnames, styles, axles, pairs, comps, plates, extras, result, ndecl>>

(***************************************************************************)
(* Bounds of the model                                                     *)
(***************************************************************************)
\* number of declarations made on top of the initial scene in a pure
\* declaration pass
MaxDecl == 2

\* number of declarations made on top of the initial scene when generation
\* and lookups are interleaved
MaxMixDecl == 1

\* number of components declared in the layout specification
MaxComps == 3

\* components declared before the parts of a layout are queried
MaxParts == 2

\* largest tooth count and largest centre distance handed to fit_spur_gears
MaxTeeth == 20

MaxSpacing == 40

\* largest |h| and largest chamfer depth handed to chamfcylinder
MaxHeight == 4

MaxChamfer == 3

\* largest number of sides and largest angle, in steps of 10 degrees, handed to
\* polycircle
MaxSides == 8

MaxArcSteps == 36

(***************************************************************************)
(* Program constants                                                       *)
(***************************************************************************)
FIDGET == 1
PADFIDGET == 10

(***************************************************************************)
(* Arithmetic helpers                                                      *)
(***************************************************************************)
sqr(x) == x * x

cube(x) == x * x * x

Abs(x) == IF x < 0 THEN 0 - x ELSE x

RECURSIVE SqrtSearch(_, _, _)
SqrtSearch(n, lo, hi) ==
    IF lo >= hi THEN lo
    ELSE LET mid == (lo + hi + 1) \div 2
         IN  IF mid * mid <= n THEN SqrtSearch(n, mid, hi)
                               ELSE SqrtSearch(n, lo, mid - 1)

\* math.sqrt on a non-negative integer, rounded down (46340 is the largest
\* root whose square fits a 31 bit integer)
ISqrt(n) == SqrtSearch(n, 0, IF n < 46340 THEN n ELSE 46340)

\* n / d as a fixed point number (thousandths), n >= 0, d > 0
FixDiv(n, d) == (n \div d) * 1000 + ((n % d) * 1000) \div d

\* the decimal scale at which the square root of rad is taken
SqrtScale(rad, den) ==
    IF rad <= 2000 /\ den <= 2000 THEN 1000
    ELSE IF rad <= 200000 /\ den <= 20000 THEN 100
    ELSE IF rad <= 20000000 /\ den <= 200000 THEN 10
    ELSE 1

\* outcome of a call: exc = "" for a normal return of val
None == [cls |-> "None", ix |-> 0]

Ret(v) == [exc |-> "", val |-> v]

Raise(e) == [exc |-> e, val |-> None]

(***************************************************************************)
(* fit_spur_gears                                                          *)
(***************************************************************************)
\* the radicand with the minus sign applied to its first term only
fit_radicand_plus(teetha, teethb, spacing) ==
    0 - 2 * teetha * cube(teethb)
      + (sqr(spacing) - 4) * sqr(teetha) * sqr(teethb)
      + 2 * cube(teetha) * teethb

\* the argument of math.sqrt
fit_radicand(teetha, teethb, spacing) ==
    0 - (2 * teetha * cube(teethb)
         - (sqr(spacing) - 4) * sqr(teetha) * sqr(teethb)
         + 2 * cube(teetha) * teethb)

fit_denominator(teetha, teethb) == teetha * sqr(teethb) + sqr(teetha) * teethb

\* fit_spur_gears taking the root of the magnitude of the radicand
fit_spur_gears_abs(teetha, teethb, spacing) ==
    LET rad == Abs(fit_radicand(teetha, teethb, spacing))
        den == fit_denominator(teetha, teethb)
        sc  == SqrtScale(rad, den)
    IN  IF den = 0 THEN Raise("ZeroDivisionError")
        ELSE Ret(FixDiv(180 * spacing * teetha * teethb, den)
                 + FixDiv(180 * ISqrt(rad * sc * sc), sc * den))

fit_spur_gears(teetha, teethb, spacing) ==
    LET rad == fit_radicand(teetha, teethb, spacing)
        den == fit_denominator(teetha, teethb)
        sc  == SqrtScale(rad, den)
    IN  IF rad < 0 THEN Raise("ValueError: math domain error")
        ELSE IF den = 0 THEN Raise("ZeroDivisionError")
        ELSE Ret(FixDiv(180 * spacing * teetha * teethb, den)
                 + FixDiv(180 * ISqrt(rad * sc * sc), sc * den))

(***************************************************************************)
(* locate2D                                                                *)
(***************************************************************************)
distancexy(a, b) == ISqrt(sqr(a.x - b.x) + sqr(a.y - b.y))

\* degrees(atan(num/den)) for the slopes of the position grid, num, den >= 0
AtanMilliDeg(num, den) ==
    CASE num = 0 -> 0
      [] num /= 0 /\ den = 0 -> 90000
      [] num /= 0 /\ den /= 0 /\ num = den -> 45000
      [] num /= 0 /\ den /= 0 /\ 3 * num = 4 * den -> 53130
      [] num /= 0 /\ den /= 0 /\ 4 * num = 3 * den -> 36870

\* degrees(atan2(dy, dx)), in (-180000, 180000]
atan2deg(dy, dx) ==
    IF dx > 0 THEN (IF dy >= 0 THEN AtanMilliDeg(dy, dx)
                               ELSE 0 - AtanMilliDeg(0 - dy, dx))
    ELSE IF dx < 0 THEN (IF dy >= 0 THEN 180000 - AtanMilliDeg(dy, 0 - dx)
                                    ELSE AtanMilliDeg(0 - dy, 0 - dx) - 180000)
    ELSE (IF dy > 0 THEN 90000 ELSE IF dy < 0 THEN 0 - 90000 ELSE 0)

angleToLoc(a, b) == atan2deg(b.y - a.y, b.x - a.x)

(***************************************************************************)
(* The world: every object created so far and the registry                 *)
(***************************************************************************)
World == [allnames |-> allnames, styles |-> styles, axles |-> axles,
          pairs |-> pairs, comps |-> comps, plates |-> plates, extras |-> extras]

\* the process before any declaration: allnames = {}
EmptyWorld == [allnames |-> <<>>, styles |-> <<>>, axles |-> <<>>,
               pairs |-> <<>>, comps |-> <<>>, plates |-> <<>>, extras |-> <<>>]

Ref(c, i) == [cls |-> c, ix |-> i]

\* the three kinds of value a caller passes as a name, and anything else
StrArg(s) == [t |-> "str", s |-> s, i |-> 0, o |-> None]

IntArg(i) == [t |-> "int", s |-> "", i |-> i, o |-> None]

ObjArg(r) == [t |-> "obj", s |-> "", i |-> 0, o |-> r]

OtherArg == [t |-> "other", s |-> "", i |-> 0, o |-> None]

\* outcome of a constructor or a method that changes the world
Done(w, v) == [w |-> w, exc |-> "", val |-> v]

\* evaluate v once and continue with its value: K(v)
Bind(v, K(_)) == CHOOSE r \in {K(x) : x \in {v}} : TRUE

Fail(w, e) == [w |-> w, exc |-> e, val |-> None]

(***************************************************************************)
(* Python floats (utils.py): binary64 values as exact multiples of         *)
(* 2^-60, held in limbs of 12 bits, least significant first, and rounded   *)
(* to 53 significant bits, ties to even, after every operation             *)
(***************************************************************************)
LimbBits == 12
FracLimbs == 5
LimbBase == 2^LimbBits
Limbs == FracLimbs + 2
MantissaBits == 53

RECURSIVE Pow2(_)
Pow2(n) == IF n = 0 THEN 1 ELSE 2 * Pow2(n - 1)

BigZero == [i \in 1..Limbs |-> 0]

\* the whole number n
BigOfInt(n) == [i \in 1..Limbs |-> IF i = FracLimbs + 1 THEN n ELSE 0]

RECURSIVE AddCarry(_, _, _)
AddCarry(a, b, i) ==
    IF i = 1 THEN 0 ELSE (a[i - 1] + b[i - 1] + AddCarry(a, b, i - 1)) \div LimbBase

BigAdd(a, b) == [i \in 1..Limbs |-> (a[i] + b[i] + AddCarry(a, b, i)) % LimbBase]

RECURSIVE SubBorrow(_, _, _)
SubBorrow(a, b, i) ==
    IF i = 1 THEN 0
    ELSE IF a[i - 1] - b[i - 1] - SubBorrow(a, b, i - 1) < 0 THEN 1 ELSE 0

\* a - b for a >= b
BigSub(a, b) ==
    [i \in 1..Limbs |-> (a[i] - b[i] - SubBorrow(a, b, i) + LimbBase) % LimbBase]

BigLess(a, b) ==
    \E i \in 1..Limbs : a[i] < b[i] /\ \A j \in (i + 1)..Limbs : a[j] = b[j]

RECURSIVE MulCarry(_, _, _)
MulCarry(a, k, i) ==
    IF i = 1 THEN 0 ELSE (a[i - 1] * k + MulCarry(a, k, i - 1)) \div LimbBase

\* a * k for a small whole number k
BigMulSmall(a, k) == [i \in 1..Limbs |-> (a[i] * k + MulCarry(a, k, i)) % LimbBase]

\* the remainder carried into limb i by the long division of a by d
RECURSIVE DivRem(_, _, _)
DivRem(a, d, i) ==
    IF i = Limbs THEN 0 ELSE (DivRem(a, d, i + 1) * LimbBase + a[i + 1]) % d

\* quotient and remainder of a by a small whole number d
BigDivSmall(a, d) ==
    [quot |-> [i \in 1..Limbs |-> (DivRem(a, d, i) * LimbBase + a[i]) \div d],
     rem |-> (DivRem(a, d, 1) * LimbBase + a[1]) % d]

RECURSIVE LimbLen(_)
LimbLen(x) == IF x = 0 THEN 0 ELSE 1 + LimbLen(x \div 2)

\* number of significant bits
BitLen(a) ==
    IF a = BigZero THEN 0
    ELSE LET top == CHOOSE i \in 1..Limbs : a[i] /= 0 /\ \A j \in (i + 1)..Limbs : a[j] = 0
         IN  (top - 1) * LimbBits + LimbLen(a[top])

BigPow2(p) ==
    [i \in 1..Limbs |-> IF i = p \div LimbBits + 1 THEN Pow2(p % LimbBits) ELSE 0]

\* the bits of a below bit p
BigLow(a, p) ==
    [i \in 1..Limbs |-> IF i < p \div LimbBits + 1 THEN a[i]
                        ELSE IF i = p \div LimbBits + 1 THEN a[i] % Pow2(p % LimbBits)
                        ELSE 0]

BitAt(a, p) == (a[p \div LimbBits + 1] \div Pow2(p % LimbBits)) % 2

\* round to nearest, ties to even; sticky: the exact value lies above a
RoundHalfEven(a, sticky) ==
    IF BitLen(a) <= MantissaBits THEN a
    ELSE
    LET p == BitLen(a) - MantissaBits
        low == BigLow(a, p)
        half == BigPow2(p - 1)
        up == \/ BigLess(half, low)
              \/ low = half /\ (sticky \/ BitAt(a, p) = 1)
    IN  IF up THEN BigAdd(BigSub(a, low), BigPow2(p)) ELSE BigSub(a, low)

\* a float: sign and magnitude
Float(neg, mag) == [neg |-> neg, mag |-> mag]

FloatOfInt(n) == Float(n < 0, BigOfInt(Abs(n)))

\* n / d for whole numbers n >= 0, d > 0
FloatDiv(n, d) ==
    Bind(BigDivSmall(BigOfInt(n), d), LAMBDA q :
        Float(FALSE, RoundHalfEven(q.quot, q.rem /= 0)))

\* k * x for a whole number k >= 0
FloatMul(k, x) ==
    Bind(BigMulSmall(x.mag, k), LAMBDA m : Float(x.neg, RoundHalfEven(m, FALSE)))

\* x - y for y >= 0
FloatSub(x, y) ==
    IF x.neg THEN Bind(BigAdd(x.mag, y.mag), LAMBDA m : Float(TRUE, RoundHalfEven(m, FALSE)))
    ELSE IF BigLess(x.mag, y.mag)
    THEN Bind(BigSub(y.mag, x.mag), LAMBDA m : Float(TRUE, RoundHalfEven(m, FALSE)))
    ELSE Bind(BigSub(x.mag, y.mag), LAMBDA m : Float(FALSE, RoundHalfEven(m, FALSE)))

FloatPositive(x) == ~x.neg /\ x.mag /= BigZero

\* x / d for a small whole number d > 0
FloatDivInt(x, d) ==
    Bind(BigDivSmall(x.mag, d), LAMBDA q :
        Float(x.neg, RoundHalfEven(q.quot, q.rem /= 0)))

\* x + y for x, y >= 0
FloatAdd(x, y) ==
    Bind(BigAdd(x.mag, y.mag), LAMBDA m : Float(FALSE, RoundHalfEven(m, FALSE)))

\* x < y for x, y >= 0
FloatLess(x, y) == BigLess(x.mag, y.mag)

\* math.pi = 0x1.921fb54442d18p+1
MathPi == Float(FALSE, <<0, 1443, 2184, 3946, 579, 3, 0>>)

\* math.radians of a whole number of degrees: x * (pi / 180)
radians(deg) == FloatMul(deg, FloatDivInt(MathPi, 180))

(***************************************************************************)
(* Sines and lengths: radians and ratios in 1/10000, lengths in 1/1000     *)
(***************************************************************************)
PiE4 == 31416

\* a float >= 0 in 1/10000, rounded down
ToE4(x) == Bind(BigMulSmall(x.mag, 10000), LAMBDA m : m[FracLimbs + 1] + LimbBase * m[Limbs])

\* sin x for 0 <= x <= pi / 2, by its series
SinSeries(x) ==
    LET x2 == (x * x) \div 10000
        t3 == (x * x2) \div 60000
        t5 == (t3 * x2) \div 200000
        t7 == (t5 * x2) \div 420000
        t9 == (t7 * x2) \div 720000
    IN  x - t3 + t5 - t7 + t9

\* sin x for 0 <= x <= pi
SinE4(x) == IF 2 * x > PiE4 THEN SinSeries(PiE4 - x) ELSE SinSeries(x)

\* cos x for 0 <= x <= pi / 2
CosE4(x) == SinSeries(PiE4 \div 2 - x)

\* |npos - end_point| for two points of the circle of radius r1 at angles a, b
Chord(r1, a, b) ==
    Bind(Abs(ToE4(a) - ToE4(b)) % (2 * PiE4), LAMBDA d :
        (2 * r1 * SinE4(d \div 2)) \div 10000)

(***************************************************************************)
(* utils.f_arc_range and utils.polycircle: the points are held as radius   *)
(* and angle, the angle as the float the code computes                     *)
(***************************************************************************)
\* the while loop of f_arc_range from the given step on
RECURSIVE f_arc_range_loop(_, _, _, _)
f_arc_range_loop(rstart, rstop, diff, step) ==
    Bind(IF step = 0 THEN rstart ELSE FloatAdd(rstart, FloatMul(step, diff)), LAMBDA a :
        IF FloatLess(a, rstop) THEN <<a>> \o f_arc_range_loop(rstart, rstop, diff, step + 1)
        ELSE <<>>)

\* f_arc_range: every angle it yields, or the exception of its first step;
\* the name pi of line 90 is not defined in utils.py
f_arc_range(start, stop, sides) ==
    IF FloatLess(stop, start) THEN Raise("AssertionError")
    ELSE IF start = stop THEN Raise("NameError")
    ELSE Ret(f_arc_range_loop(start, stop,
                              FloatDivInt(FloatMul(2, MathPi), sides), 0))

\* the while True loop of polycircle: the points yielded from angles[i] on
RECURSIVE polycircle_loop(_, _, _, _, _)
polycircle_loop(r1, sides, rto, angles, i) ==
    IF i > Len(angles) THEN <<>>
    ELSE IF Chord(r1, angles[i], rto) < (r1 * SinE4(PiE4 \div sides) * 6) \div 100000
    THEN <<>>
    ELSE <<[r |-> r1, ang |-> angles[i]]>> \o polycircle_loop(r1, sides, rto, angles, i + 1)

\* polycircle(rad, sides, isouter, ang_from, ang_to): val is what was yielded,
\* exc the exception that ended the generator, if any
polycircle(rad, sides, isouter, ang_from, ang_to) ==
    IF ~(sides > 2) THEN [exc |-> "AssertionError", val |-> <<>>]
    ELSE
    Bind(radians(ang_from), LAMBDA rfrom :
    Bind(radians(ang_to), LAMBDA rto :
    Bind(IF isouter THEN (rad * 10000) \div CosE4(PiE4 \div sides) ELSE rad, LAMBDA r1 :
    Bind(IF isouter THEN <<[r |-> r1, ang |-> rfrom]>> ELSE <<>>, LAMBDA first :
    Bind(IF isouter THEN f_arc_range(FloatAdd(rfrom, FloatDivInt(MathPi, sides)), rto, sides)
         ELSE f_arc_range(rfrom, rto, sides), LAMBDA a :
        IF a.exc /= "" THEN [exc |-> a.exc, val |-> first]
        ELSE Ret(first \o polycircle_loop(r1, sides, rto, a.val, 1)
                       \o <<[r |-> r1, ang |-> rto]>>))))))

(***************************************************************************)
(* utils.chamfcylinder: the sections it builds and their nominal heights;  *)
(* h, chamtop and chambase are whole numbers, None is <<>>.  Radii are     *)
(* left out; the z range of each section is kept in 1/1000000, rounded     *)
(* down, with cut left False                                               *)
(***************************************************************************)
\* |chamfer|, 0 for None
ChamferDepth(cham) == IF cham = <<>> THEN 0 ELSE Abs(cham[1])

\* the default of the fidget argument, .001, in 1/1000000
ChamferFidget == 1000

Micro == 1000 * 1000

\* a float >= 0 in 1/1000000, rounded down
ToE6(x) ==
    Bind(BigMulSmall(BigMulSmall(x.mag, 1000), 1000), LAMBDA m :
        m[FracLimbs + 1] + LimbBase * m[Limbs])

\* the cylinders with their translations: section, lowest z, highest z
ChamferSpans(h, chamtop, chambase, atop, abase, mainheight) ==
    Bind(ToE6(atop), LAMBDA ztop :
    Bind(ToE6(abase), LAMBDA zbase :
    Bind(IF FloatPositive(mainheight) THEN ToE6(mainheight) ELSE 0, LAMBDA zmain :
    Bind(IF h < 0 THEN h * Micro ELSE 0, LAMBDA tzbase :
    Bind(IF h > 0 THEN h * Micro - ztop - ChamferFidget
         ELSE 0 - ztop - ChamferFidget, LAMBDA tztop :
    Bind(IF h > 0 /\ FloatPositive(abase) THEN zbase
         ELSE IF h < 0 /\ FloatPositive(atop) THEN 0 - zmain - ztop
         ELSE IF h < 0 THEN 0 - Abs(h) * Micro
         ELSE 0, LAMBDA zoff :
        (IF chambase /= <<>>
         THEN <<[sec |-> "base", lo |-> tzbase, hi |-> tzbase + zbase + ChamferFidget]>>
         ELSE <<>>)
        \o (IF chamtop /= <<>>
            THEN <<[sec |-> "top", lo |-> tztop, hi |-> tztop + ztop + ChamferFidget]>>
            ELSE <<>>)
        \o (IF FloatPositive(mainheight)
            THEN <<[sec |-> "straight", lo |-> zoff, hi |-> zoff + zmain]>>
            ELSE <<>>)))))))

\* chamfcylinder: scaled depths, what is left for the straight part, the sections
chamfcylinder(h, chamtop, chambase) ==
    Bind(ChamferDepth(chamtop) + ChamferDepth(chambase) > Abs(h), LAMBDA scaled :
    Bind(IF scaled THEN FloatDiv(Abs(h), ChamferDepth(chamtop) + ChamferDepth(chambase))
         ELSE FloatOfInt(1), LAMBDA scale :
    Bind(IF scaled THEN FloatMul(ChamferDepth(chamtop), scale)
         ELSE FloatOfInt(ChamferDepth(chamtop)), LAMBDA atop :
    Bind(IF scaled THEN FloatMul(ChamferDepth(chambase), scale)
         ELSE FloatOfInt(ChamferDepth(chambase)), LAMBDA abase :
    Bind(IF chambase /= <<>> THEN FloatSub(FloatOfInt(Abs(h)), abase)
         ELSE FloatOfInt(Abs(h)), LAMBDA m1 :
    Bind(IF chamtop /= <<>> THEN FloatSub(m1, atop) ELSE m1, LAMBDA m2 :
        Ret([scaled |-> scaled, atop |-> atop, abase |-> abase, mainheight |-> m2,
             spans |-> ChamferSpans(h, chamtop, chambase, atop, abase, m2),
             sections |-> (IF chambase /= <<>> THEN <<"base">> ELSE <<>>)
                          \o (IF chamtop /= <<>> THEN <<"top">> ELSE <<>>)
                          \o (IF FloatPositive(m2) THEN <<"straight">> ELSE <<>>)])))))))

(***************************************************************************)
(* namedObj and resolvename                                                *)
(***************************************************************************)
\* position of key in an OrderedDict held as a sequence of items, 0 if absent
OD_find(od, key) ==
    IF \E i \in 1..Len(od) : od[i].name = key
    THEN CHOOSE i \in 1..Len(od) : od[i].name = key
    ELSE 0

\* OD_set that never looks for the key: a second entry for a used name
OD_set_append(od, key, ref) == Append(od, [name |-> key, ref |-> ref])

\* od[key] = ref: a present key keeps its position, a new key goes last
OD_set(od, key, ref) ==
    LET i == OD_find(od, key)
    IN  IF i = 0 THEN Append(od, [name |-> key, ref |-> ref])
        ELSE [od EXCEPT ![i] = [name |-> key, ref |-> ref]]

\* od.get(key)
OD_get(od, key) ==
    LET i == OD_find(od, key) IN IF i = 0 THEN None ELSE od[i].ref

\* od[key]
OD_getitem(od, key) ==
    LET i == OD_find(od, key) IN IF i = 0 THEN Raise("KeyError") ELSE Ret(od[i].ref)

\* list(od.values())
OD_values(od) == [i \in 1..Len(od) |-> od[i].ref]

\* the 1-based position a Python list of length n gives index i, 0 if none
PyPos(n, i) ==
    IF 0 <= i /\ i < n THEN i + 1
    ELSE IF i < 0 /\ 0 - i <= n THEN n + i + 1
    ELSE 0

\* list(od.values())[i], with Python's negative indexes
OD_index(od, i) ==
    IF PyPos(Len(od), i) /= 0 THEN Ret(od[PyPos(Len(od), i)].ref)
    ELSE Raise("IndexError")

\* namedObj.__init__: allnames[cname][name] = self
namedObj_init(w, cname, name, ref) ==
    LET old == IF cname \in DOMAIN w.allnames THEN w.allnames[cname] ELSE <<>>
    IN  [w EXCEPT !.allnames =
            [n \in DOMAIN w.allnames \cup {cname} |->
                IF n = cname THEN OD_set(old, name, ref) ELSE w.allnames[n]]]

\* the lookup of a list element: the world stays as it is
Indexed(w, r) == [w |-> w, exc |-> r.exc, val |-> r.val]

\* resolvename on a registry that creates a namespace when it is first asked for
resolvename_setdefault(w, namespace, name, noexcept) ==
    LET w1 == [w EXCEPT !.allnames =
                    [n \in DOMAIN w.allnames \cup {namespace} |->
                        IF n \in DOMAIN w.allnames THEN w.allnames[n] ELSE <<>>]]
    IN  IF name.t = "obj" THEN Done(w, name.o)
        ELSE IF name.t = "str" THEN Done(w1, OD_get(w1.allnames[namespace], name.s))
        ELSE IF name.t = "int" THEN Indexed(w1, OD_index(w1.allnames[namespace], name.i))
        ELSE Fail(w, "ValueError: not a valid namedObj")

\* resolvename: the outcome and the world it leaves
resolvename(w, namespace, name, noexcept) ==
    IF name.t = "obj" THEN Done(w, name.o)
    ELSE IF name.t \in {"str", "int"} THEN
        IF namespace \in DOMAIN w.allnames THEN
            IF name.t = "str" THEN Done(w, OD_get(w.allnames[namespace], name.s))
            ELSE Indexed(w, OD_index(w.allnames[namespace], name.i))
        ELSE IF noexcept THEN Done(w, None)
        ELSE Fail(w, "ValueError: cannot find namepace")
    ELSE Fail(w, "ValueError: not a valid namedObj")

(***************************************************************************)
(* gearstyle, hourhand                                                     *)
(***************************************************************************)
gearstyle_init(w, d) ==
    LET ix == Len(w.styles) + 1
        w1 == [w EXCEPT !.styles = Append(@, [name |-> d.name, offset |-> d.offset,
                                              height |-> d.height,
                                              clearance |-> d.clearance])]
    IN  Done(namedObj_init(w1, "gearstyle", d.name, Ref("gearstyle", ix)),
             Ref("gearstyle", ix))

\* hourhand.__init__ (minutehand and secondhand are alike): an extrapart
hourhand_init(w, d) ==
    LET ix == Len(w.extras) + 1
        w1 == [w EXCEPT !.extras = Append(@, [name |-> d.name, shaft |-> d.shaft])]
    IN  Done(namedObj_init(w1, "extrapart", d.name, Ref("extrapart", ix)),
             Ref("extrapart", ix))

(***************************************************************************)
(* smartPart and plate                                                     *)
(***************************************************************************)
\* plate.__init__ as it would be if the sign of the thickness were ignored
plate_init_signed(w, d) ==
    LET ix == Len(w.plates) + 1
        w1 == [w EXCEPT !.plates = Append(@,
                  [name |-> d.name,
                   zbase |-> d.zoffset,
                   thickness |-> d.thickness,
                   hull |-> <<>>, extra |-> <<>>, cuts |-> <<>>])]
    IN  Done(namedObj_init(w1, "plate", d.name, Ref("plate", ix)), Ref("plate", ix))

\* plate.__init__: a negative thickness makes zoffset the top face
plate_init(w, d) ==
    LET ix == Len(w.plates) + 1
        w1 == [w EXCEPT !.plates = Append(@,
                  [name |-> d.name,
                   zbase |-> IF d.thickness < 0 THEN d.zoffset + d.thickness ELSE d.zoffset,
                   thickness |-> IF d.thickness < 0 THEN 0 - d.thickness ELSE d.thickness,
                   hull |-> <<>>, extra |-> <<>>, cuts |-> <<>>])]
    IN  Done(namedObj_init(w1, "plate", d.name, Ref("plate", ix)), Ref("plate", ix))

\* one entry of smartPart.allparts[parttype]: the generator and its kwargs
PlatePart(partname, partgen, axleix, tr, kw) ==
    [name |-> partname, partgen |-> partgen, axle |-> axleix, tr |-> tr, kw |-> kw]

\* allparts[parttype][partname] = (partgen, kwargs)
PD_set(pd, part) ==
    IF \E i \in 1..Len(pd) : pd[i].name = part.name
    THEN [i \in 1..Len(pd) |-> IF pd[i].name = part.name THEN part ELSE pd[i]]
    ELSE Append(pd, part)

\* plate.addSupport: a hull part of the plate's thickness at zbase
addSupport(w, pl, nametail, axleix, x, y) ==
    [w EXCEPT !.plates[pl].hull =
        PD_set(@, PlatePart(<<"hull for ", nametail>>, "chamfcylinder", axleix,
                            <<x, y, 0 + w.plates[pl].zbase>>,
                            [h |-> w.plates[pl].thickness]))]

\* plate.addExtra: an extra part on the top face; without a translate the
\* part is moved up to the top face unless that is z = 0
addExtra(w, pl, nametail, axleix, kw) ==
    [w EXCEPT !.plates[pl].extra =
        PD_set(@, PlatePart(<<"extra for ", nametail>>, "generatepadup", axleix,
                            IF w.plates[pl].zbase + w.plates[pl].thickness = 0 THEN <<>>
                            ELSE <<0, 0, w.plates[pl].zbase + w.plates[pl].thickness>>,
                            kw))]

\* plate.addCut: a cut part at zbase
addCut(w, pl, nametail, axleix, kw) ==
    [w EXCEPT !.plates[pl].cuts =
        PD_set(@, PlatePart(<<"cut for ", nametail>>, "generatePlatecut", axleix,
                            IF w.plates[pl].zbase = 0 THEN <<>>
                            ELSE <<0, 0, w.plates[pl].zbase>>,
                            kw))]

(***************************************************************************)
(* axle                                                                    *)
(***************************************************************************)
\* the body of the loop over plates.items() for one plate
axle_init_plate(w, ix, info) ==
    Bind(resolvename(w, "plate", info.platename, FALSE), LAMBDA rp :
        IF rp.exc /= "" THEN Fail(w, rp.exc)
        ELSE IF ~(info.support \/ info.padup /= <<>> \/ info.axlecut /= <<>>)
             THEN Done(w, None)
        ELSE IF rp.val.cls /= "plate" THEN Fail(w, "AttributeError")
        ELSE
        LET pl == rp.val.ix
            me == w.axles[ix]
        IN  Bind(IF info.support
                 THEN addSupport(w, pl, <<"axle ", me.name>>, ix, me.x, me.y)
                 ELSE w, LAMBDA w1 :
            Bind(IF info.padup /= <<>>
                 THEN addExtra(w1, pl, <<"axlepad ", me.name>>, ix, info.padup[1])
                 ELSE w1, LAMBDA w2 :
            Bind(IF info.axlecut /= <<>>
                 THEN addCut(w2, pl, <<"axlecut ", me.name>>, ix,
                             [base |-> 0, top |-> w2.plates[pl].thickness,
                              shaftargs |-> info.axlecut[1].shaftargs,
                              blanked |-> info.axlecut[1].blanked])
                 ELSE w2, LAMBDA w3 :
                Done(w3, None)))))

RECURSIVE axle_init_plates(_, _, _)
axle_init_plates(w, ix, infos) ==
    IF infos = <<>> THEN Done(w, Ref("axle", ix))
    ELSE Bind(axle_init_plate(w, ix, Head(infos)), LAMBDA o :
            IF o.exc /= "" THEN o ELSE axle_init_plates(o.w, ix, Tail(infos)))

\* axle.__init__; padheight is a number or None: <<v>> or <<>>
axle_init(w, d) ==
    LET ix == Len(w.axles) + 1
        w1 == [w EXCEPT !.axles = Append(@, [name |-> d.name, x |-> d.x, y |-> d.y,
                                             compolist |-> <<>>, padheight |-> <<0>>])]
    IN  Bind(namedObj_init(w1, "axle", d.name, Ref("axle", ix)), LAMBDA w2 :
            axle_init_plates(w2, ix, d.plates))

(***************************************************************************)
(* agear                                                                   *)
(***************************************************************************)
agear_init(w, gaxle, teeth, style, circpitch, secondary, gangle, baseoffset) ==
    Bind(resolvename(w, "axle", ObjArg(gaxle), FALSE), LAMBDA ra :
    Bind(resolvename(w, "gearstyle", StrArg(style), FALSE), LAMBDA rs :
        IF ra.exc /= "" THEN ra
        ELSE IF ra.val.cls /= "axle" THEN Raise("AssertionError")
        ELSE IF rs.exc /= "" THEN rs
        ELSE IF rs.val.cls /= "gearstyle" THEN Raise("AssertionError")
        ELSE Ret([axle |-> ra.val.ix, teeth |-> teeth, style |-> rs.val.ix,
                  cpitch |-> circpitch, gangle |-> gangle, seco |-> secondary,
                  baseoffset |-> baseoffset])))

\* outerRadius without the addendum
outerRadius_pitch(w, g) == (g.teeth * g.cpitch) \div 360

outerRadius(w, g) == (g.teeth * g.cpitch) \div 360 + g.cpitch \div 180

innerRadius(w, g) ==
    ((g.teeth * g.cpitch) \div 360 - g.cpitch \div 180 - w.styles[g.style].clearance) - 600

geartop(w, g) == g.baseoffset + w.styles[g.style].offset + w.styles[g.style].height

gearbase(w, g) == g.baseoffset + w.styles[g.style].offset

\* gearalign without the half turn of the secondary gear
gearalign_nohalfturn(g) == g.gangle + (IF g.seco THEN 180000 \div g.teeth ELSE 0)

\* the rotation agear.generate applies to the tooth profile
gearalign(g) == g.gangle + (IF g.seco THEN 180000 + 180000 \div g.teeth ELSE 0)

\* agear.generate: rotate by gearalign, translate to the axle and the base z
agear_generate(w, g) ==
    [shape |-> "gear", teeth |-> g.teeth, cpitch |-> g.cpitch,
     thick |-> w.styles[g.style].height, rot |-> gearalign(g),
     x |-> w.axles[g.axle].x, y |-> w.axles[g.axle].y,
     z |-> w.styles[g.style].offset + g.baseoffset]

(***************************************************************************)
(* gearpair                                                                *)
(***************************************************************************)
\* primstyle with the tie going to the secondary
primstyle_strict(primteeth, secoteeth) == IF primteeth < secoteeth THEN "small" ELSE "large"

\* the style argument of the primary and of the secondary agear
primstyle(primteeth, secoteeth) == IF primteeth <= secoteeth THEN "small" ELSE "large"

secostyle(primteeth, secoteeth) == IF primteeth <= secoteeth THEN "large" ELSE "small"

\* stage: 0 registered, 1 baseoffset and colour set, 2 primgear set,
\*        3 secogear set (constructor completed)
gearpair_init(w, d) ==
    LET ix == Len(w.pairs) + 1
        me == Ref("gearpair", ix)
        w0 == [w EXCEPT !.pairs = Append(@, [name |-> d.name, stage |-> 0,
                                             baseoffset |-> 0,
                                             primgear |-> <<>>, secogear |-> <<>>])]
    IN  Bind(namedObj_init(w0, "gearpair", d.name, me), LAMBDA w1 :
        Bind(resolvename(w1, "axle", d.prim_axle, FALSE), LAMBDA rp :
        Bind(resolvename(w1, "axle", d.seco_axle, FALSE), LAMBDA rs :
            IF rp.exc /= "" THEN Fail(w1, rp.exc)
            ELSE IF rs.exc /= "" THEN Fail(w1, rs.exc)
            ELSE IF rp.val.cls /= "axle" \/ rs.val.cls /= "axle"
                 THEN Fail(w1, "AssertionError")
            ELSE
            LET paxle == w1.axles[rp.val.ix]
                saxle == w1.axles[rs.val.ix]
                axdist == distancexy(paxle, saxle)
            IN  Bind(fit_spur_gears(d.primteeth, d.secoteeth, axdist), LAMBDA fit :
                    IF fit.exc /= "" THEN Fail(w1, fit.exc)
                    ELSE
                    LET geardir == angleToLoc(paxle, saxle)
                        w2 == [w1 EXCEPT !.pairs[ix].stage = 1,
                                         !.pairs[ix].baseoffset = d.baseoffset]
                    IN  Bind(agear_init(w2, rp.val, d.primteeth,
                                        primstyle(d.primteeth, d.secoteeth),
                                        fit.val, FALSE, geardir, d.baseoffset), LAMBDA pg :
                            IF pg.exc /= "" THEN Fail(w2, pg.exc)
                            ELSE
                            LET w3 == [w2 EXCEPT !.pairs[ix].stage = 2,
                                                 !.pairs[ix].primgear = <<pg.val>>]
                            IN  Bind(agear_init(w3, rs.val, d.secoteeth,
                                                secostyle(d.primteeth, d.secoteeth),
                                                fit.val, TRUE, geardir, d.baseoffset),
                                     LAMBDA sg :
                                    IF sg.exc /= "" THEN Fail(w3, sg.exc)
                                    ELSE Done([w3 EXCEPT !.pairs[ix].stage = 3,
                                                         !.pairs[ix].secogear = <<sg.val>>],
                                              me)))))))

getgear(p, primary) == IF primary THEN p.primgear[1] ELSE p.secogear[1]

\* gearpair.axlegearisprim that takes every other axle for the secondary one
axlegearisprim_other(w, p, axleref) ==
    IF p.stage < 2 THEN Raise("AttributeError")
    ELSE IF Ref("axle", p.primgear[1].axle) = axleref THEN Ret(TRUE)
    ELSE Ret(FALSE)

\* gearpair.axlegearisprim; the axle is passed as the reference held by the caller,
\* val of the ValueError holds the names its message is formatted with
axlegearisprim(w, p, axleref) ==
    IF p.stage < 2 THEN Raise("AttributeError")
    ELSE IF Ref("axle", p.primgear[1].axle) = axleref THEN Ret(TRUE)
    ELSE IF p.stage < 3 THEN Raise("AttributeError")
    ELSE IF Ref("axle", p.secogear[1].axle) = axleref THEN Ret(FALSE)
    ELSE IF axleref.cls /= "axle" THEN Raise("AttributeError")
    ELSE [exc |-> "ValueError: gearpair has no gear on axle",
          val |-> [gearpair |-> p.name, axle |-> w.axles[axleref.ix].name]]

\* gearpair.generate(gears)
gearpair_generate(w, p, gears) ==
    IF gears = "both" THEN
        IF p.stage < 3 THEN Raise("AttributeError")
        ELSE Ret(<<agear_generate(w, p.primgear[1]), agear_generate(w, p.secogear[1])>>)
    ELSE IF gears = "prim" THEN
        IF p.stage < 2 THEN Raise("AttributeError")
        ELSE Ret(<<agear_generate(w, p.primgear[1])>>)
    ELSE IF gears = "seco" THEN
        IF p.stage < 3 THEN Raise("AttributeError")
        ELSE Ret(<<agear_generate(w, p.secogear[1])>>)
    ELSE Raise("ValueError: invalid gears parameter")

(***************************************************************************)
(* The parts of an axle component                                          *)
(***************************************************************************)
\* a part of whatever class, with the attributes of all four classes
Part(ptype, partix, compix) ==
    [ptype |-> ptype, partix |-> partix, axlecomp |-> compix,
     gearpair |-> 0, whichgear |-> "", gear |-> <<>>,
     sloped |-> TRUE, clearance |-> 0, top |-> <<>>,
     toPlate |-> None, partspec |-> <<>>]

\* gearpart.__init__
gearpart_init(w, partix, compix, partdef) ==
    Bind(resolvename(w, "gearpair", partdef.gearpr, FALSE), LAMBDA rg :
        IF rg.exc /= "" THEN rg
        ELSE IF rg.val.cls /= "gearpair" THEN Raise("AttributeError")
        ELSE
        LET p == w.pairs[rg.val.ix]
        IN  Bind(axlegearisprim(w, p, w.comps[compix].axle), LAMBDA isprim :
                IF isprim.exc /= "" THEN isprim
                ELSE Ret([Part("gear", partix, compix) EXCEPT
                            !.gearpair = rg.val.ix,
                            !.whichgear = IF isprim.val THEN "primary" ELSE "secondary",
                            !.gear = <<getgear(p, isprim.val)>>])))

\* autospacepart.__init__
autospacepart_init(w, partix, compix, partdef) ==
    Ret([Part("autospacer", partix, compix) EXCEPT !.sloped = partdef.sloped])

\* gearpaduppart.__init__
gearpaduppart_init(w, partix, compix, partdef) ==
    Ret([Part("padup", partix, compix) EXCEPT !.partspec = partdef.partspec,
                                              !.clearance = partdef.clearance])

\* padtoPlate.__init__
padtoPlate_init(w, partix, compix, partdef) ==
    Bind(resolvename(w, "plate", partdef.platename, FALSE), LAMBDA rp :
        IF rp.exc /= "" THEN rp
        ELSE Ret([Part("padplate", partix, compix) EXCEPT
                    !.toPlate = rp.val, !.partspec = partdef.partspec]))

makeaxpart(w, partix, compix, partdef) ==
    IF partdef.parttype = "gear" THEN gearpart_init(w, partix, compix, partdef)
    ELSE IF partdef.parttype = "autospacer" THEN autospacepart_init(w, partix, compix, partdef)
    ELSE IF partdef.parttype = "padup" THEN gearpaduppart_init(w, partix, compix, partdef)
    ELSE IF partdef.parttype = "padplate" THEN padtoPlate_init(w, partix, compix, partdef)
    ELSE Raise("ValueError: unknown axle component part")

\* partbase() of a part: only a gear part has one
partbase(w, p) ==
    IF p.ptype = "gear" THEN Ret(gearbase(w, p.gear[1]))
    ELSE Raise("AttributeError")

\* axlecomp.compbase
compbase(w, c) ==
    IF c.stage < 2 THEN Raise("AttributeError")
    ELSE IF Len(c.parts) = 0 THEN Raise("IndexError")
    ELSE partbase(w, c.parts[1])

(***************************************************************************)
(* axle.addComponent                                                       *)
(***************************************************************************)
InsertAt(seq, i, e) == SubSeq(seq, 1, i - 1) \o <<e>> \o SubSeq(seq, i, Len(seq))

\* addComponent that never compares: every component goes last
addComponent_scan_append(w, compolist, cbase, i) == Ret(Len(compolist) + 1)

\* the for loop stopping at the first base that is greater or equal
RECURSIVE addComponent_scan_ge(_, _, _, _)
addComponent_scan_ge(w, compolist, cbase, i) ==
    IF i > Len(compolist) THEN Ret(i)
    ELSE Bind(compbase(w, w.comps[compolist[i]]), LAMBDA ob :
            IF ob.exc /= "" THEN ob
            ELSE IF ob.val >= cbase THEN Ret(i)
            ELSE addComponent_scan_ge(w, compolist, cbase, i + 1))

\* the for loop: the index to insert before, Len + 1 for the else branch
RECURSIVE addComponent_scan(_, _, _, _)
addComponent_scan(w, compolist, cbase, i) ==
    IF i > Len(compolist) THEN Ret(i)
    ELSE Bind(compbase(w, w.comps[compolist[i]]), LAMBDA ob :
            IF ob.exc /= "" THEN ob
            ELSE IF ob.val > cbase THEN Ret(i)
            ELSE addComponent_scan(w, compolist, cbase, i + 1))

addComponent(w, axleix, compix) ==
    LET compolist == w.axles[axleix].compolist
    IN  IF Len(compolist) > 0 THEN
            Bind(compbase(w, w.comps[compix]), LAMBDA cb :
                IF cb.exc /= "" THEN Fail(w, cb.exc)
                ELSE
                Bind(addComponent_scan(w, compolist, cb.val, 1), LAMBDA at :
                    IF at.exc /= "" THEN Fail(w, at.exc)
                    ELSE Done([w EXCEPT !.axles[axleix].compolist =
                                            InsertAt(compolist, at.val, compix)], None)))
        ELSE Done([w EXCEPT !.axles[axleix].compolist = Append(compolist, compix)], None)

(***************************************************************************)
(* axlecomp                                                                *)
(***************************************************************************)
\* the list comprehension run over the part list from its end
makeparts_reversed(w, compix, partlist) ==
    Bind([i \in 1..Len(partlist) |->
            makeaxpart(w, i - 1, compix, partlist[Len(partlist) + 1 - i])],
         LAMBDA made :
        LET bad == {i \in 1..Len(partlist) : made[i].exc /= ""}
        IN  IF bad = {} THEN Ret([i \in 1..Len(partlist) |-> made[i].val])
            ELSE Raise(made[CHOOSE i \in bad : \A j \in bad : i <= j].exc))

\* the list comprehension over partlist: the parts, or the first exception
makeparts(w, compix, partlist) ==
    Bind([i \in 1..Len(partlist) |-> makeaxpart(w, i - 1, compix, partlist[i])],
         LAMBDA made :
        LET bad == {i \in 1..Len(partlist) : made[i].exc /= ""}
        IN  IF bad = {} THEN Ret([i \in 1..Len(partlist) |-> made[i].val])
            ELSE Raise(made[CHOOSE i \in bad : \A j \in bad : i <= j].exc))

\* stage: 0 registered, 1 axle set, 2 parts set, 3 added to the axle,
\*        4 colour and finalcuts set (constructor completed)
axlecomp_init(w, d) ==
    LET ix == Len(w.comps) + 1
        me == Ref("axlecomp", ix)
        w0 == [w EXCEPT !.comps = Append(@, [name |-> d.name, stage |-> 0,
                                             axle |-> None, parts |-> <<>>,
                                             finalcuts |-> <<>>, cutout |-> <<>>])]
    IN  Bind(namedObj_init(w0, "axlecomp", d.name, me), LAMBDA w1 :
        Bind(resolvename(w1, "axle", d.caxle, FALSE), LAMBDA ra :
            IF ra.exc /= "" THEN Fail(w1, ra.exc)
            ELSE
            Bind([w1 EXCEPT !.comps[ix].stage = 1, !.comps[ix].axle = ra.val], LAMBDA w2 :
            Bind(makeparts(w2, ix, d.partlist), LAMBDA mp :
                IF mp.exc /= "" THEN Fail(w2, mp.exc)
                ELSE
                Bind([w2 EXCEPT !.comps[ix].stage = 2, !.comps[ix].parts = mp.val],
                     LAMBDA w3 :
                    IF ra.val.cls /= "axle" THEN Fail(w3, "AttributeError")
                    ELSE
                    Bind(addComponent(w3, ra.val.ix, ix), LAMBDA ac :
                        IF ac.exc /= "" THEN Fail(ac.w, ac.exc)
                        ELSE Done([ac.w EXCEPT !.comps[ix].stage = 4,
                                               !.comps[ix].finalcuts = d.finalcuts],
                                  me)))))))

(***************************************************************************)
(* Generation: parts                                                       *)
(***************************************************************************)
\* names of shaftparams
ShaftStyles == {"bt2mm", "bt3mm", "bt4mm", "bt5mm", "bt5mmo"}

\* position of a component in a compolist, 0 if absent
IndexOf(compolist, compix) ==
    IF \E i \in 1..Len(compolist) : compolist[i] = compix
    THEN CHOOSE i \in 1..Len(compolist) :
            compolist[i] = compix /\ \A j \in 1..(i - 1) : compolist[j] /= compix
    ELSE 0

\* what getcompindex prints before it re-raises
NotFoundReport(w, a, c) ==
    [comp |-> w.comps[c].name, axle |-> w.axles[a].name,
     names |-> [i \in 1..Len(w.axles[a].compolist) |->
                    w.comps[w.axles[a].compolist[i]].name]]

\* axle.getcompindex that files the missing component instead of failing
getcompindex_filed(w, a, c) ==
    IF IndexOf(w.axles[a].compolist, c) > 0
    THEN Done(w, IndexOf(w.axles[a].compolist, c) - 1)
    ELSE Done([w EXCEPT !.axles[a].compolist = Append(@, c)], Len(w.axles[a].compolist))

\* axle.getcompindex: the 0-based position of component c in the compolist of
\* axle a, or the ValueError of list.index re-raised after the report
getcompindex(w, a, c) ==
    IF IndexOf(w.axles[a].compolist, c) > 0
    THEN Done(w, IndexOf(w.axles[a].compolist, c) - 1)
    ELSE [w |-> w, exc |-> "ValueError: not in list", val |-> NotFoundReport(w, a, c)]

\* axle.getcomponentno: compolist[ix] with Python's indexing
getcomponentno(w, a, ix) ==
    IF PyPos(Len(w.axles[a].compolist), ix) = 0 THEN Raise("IndexError")
    ELSE Ret(w.axles[a].compolist[PyPos(Len(w.axles[a].compolist), ix)])

\* gearpaduppart.parttop that goes round to the first component after the last
gearpaduppart_parttop_round(w, c, i) ==
    LET comp == w.comps[c]
        p == comp.parts[i]
    IN  IF p.top /= <<>> THEN Done(w, p.top[1])
        ELSE IF comp.axle.cls /= "axle" THEN Fail(w, "AttributeError")
        ELSE
        LET compolist == w.axles[comp.axle.ix].compolist
            at == IndexOf(compolist, c)
        IN  IF at = 0 THEN Fail(w, "ValueError: not found on axle")
            ELSE
            Bind(compbase(w, w.comps[compolist[(at % Len(compolist)) + 1]]), LAMBDA nb :
                IF nb.exc /= "" THEN Fail(w, nb.exc)
                ELSE Done([w EXCEPT !.comps[c].parts[i].top = <<nb.val - p.clearance>>],
                          nb.val - p.clearance))

\* gearpaduppart.parttop that takes the component declared next, not the next in
\* the list
gearpaduppart_parttop_declared(w, c, i) ==
    LET comp == w.comps[c]
        p == comp.parts[i]
    IN  IF p.top /= <<>> THEN Done(w, p.top[1])
        ELSE IF comp.axle.cls /= "axle" THEN Fail(w, "AttributeError")
        ELSE
        LET compolist == w.axles[comp.axle.ix].compolist
            at == IndexOf(compolist, c)
        IN  IF at = 0 THEN Fail(w, "ValueError: not found on axle")
            ELSE IF c + 1 > Len(w.comps) THEN Fail(w, "IndexError")
            ELSE
            Bind(compbase(w, w.comps[c + 1]), LAMBDA nb :
                IF nb.exc /= "" THEN Fail(w, nb.exc)
                ELSE Done([w EXCEPT !.comps[c].parts[i].top = <<nb.val - p.clearance>>],
                          nb.val - p.clearance))

\* gearpaduppart.parttop: computed on the first call and kept in self.top
gearpaduppart_parttop(w, c, i) ==
    LET comp == w.comps[c]
        p == comp.parts[i]
    IN  IF p.top /= <<>> THEN Done(w, p.top[1])
        ELSE IF comp.axle.cls /= "axle" THEN Fail(w, "AttributeError")
        ELSE
        LET compolist == w.axles[comp.axle.ix].compolist
            at == IndexOf(compolist, c)
        IN  IF at = 0 THEN Fail(w, "ValueError: not found on axle")
            ELSE IF at + 1 > Len(compolist) THEN Fail(w, "IndexError")
            ELSE
            Bind(compbase(w, w.comps[compolist[at + 1]]), LAMBDA nb :
                IF nb.exc /= "" THEN Fail(w, nb.exc)
                ELSE Done([w EXCEPT !.comps[c].parts[i].top = <<nb.val - p.clearance>>],
                          nb.val - p.clearance))

\* parttop() with the top face of the plate for a pad to a plate
parttop_face(w, c, i) ==
    LET p == w.comps[c].parts[i]
    IN  IF p.ptype = "gear" THEN Done(w, geartop(w, p.gear[1]))
        ELSE IF p.ptype = "padup" THEN gearpaduppart_parttop(w, c, i)
        ELSE IF p.ptype = "padplate" THEN
            IF p.toPlate.cls /= "plate" THEN Fail(w, "AttributeError")
            ELSE Done(w, w.plates[p.toPlate.ix].zbase + w.plates[p.toPlate.ix].thickness)
        ELSE Fail(w, "AttributeError")

\* parttop() of part i (1-based) of component c
parttop(w, c, i) ==
    LET p == w.comps[c].parts[i]
    IN  IF p.ptype = "gear" THEN Done(w, geartop(w, p.gear[1]))
        ELSE IF p.ptype = "padup" THEN gearpaduppart_parttop(w, c, i)
        ELSE IF p.ptype = "padplate" THEN
            IF p.toPlate.cls /= "plate" THEN Fail(w, "AttributeError")
            ELSE Done(w, w.plates[p.toPlate.ix].zbase)
        ELSE Fail(w, "AttributeError")

\* axlecomp.comptop: parttop() of the last part
comptop(w, c) ==
    IF w.comps[c].stage < 2 THEN Fail(w, "AttributeError")
    ELSE IF Len(w.comps[c].parts) = 0 THEN Fail(w, "IndexError")
    ELSE parttop(w, c, Len(w.comps[c].parts))

\* axlecomp.getpart succeeds for the 0-based index partix
HasPart(comp, partix) == partix >= 0 /\ partix < Len(comp.parts)

\* autospacepart.generate with the taper turned over
autospacepart_generate_inverted(w, c, i) ==
    LET comp == w.comps[c]
        p == comp.parts[i]
    IN  IF ~HasPart(comp, p.partix - 1) THEN Fail(w, "AssertionError")
        ELSE
        Bind(parttop(w, c, i - 1), LAMBDA bt :
            IF bt.exc /= "" THEN bt
            ELSE IF comp.parts[i - 1].ptype /= "gear" THEN Fail(bt.w, "AttributeError")
            ELSE IF ~HasPart(comp, p.partix + 1) THEN Fail(bt.w, "AssertionError")
            ELSE
            Bind(partbase(bt.w, comp.parts[i + 1]), LAMBDA ab :
                IF ab.exc /= "" THEN Fail(bt.w, ab.exc)
                ELSE IF comp.axle.cls /= "axle" THEN Fail(bt.w, "AttributeError")
                ELSE Done(bt.w,
                        [shape |-> "cylinder", h |-> ab.val - bt.val,
                         r1 |-> outerRadius(bt.w, comp.parts[i + 1].gear[1]),
                         r2 |-> IF p.sloped
                                THEN innerRadius(bt.w, comp.parts[i - 1].gear[1])
                                ELSE outerRadius(bt.w, comp.parts[i + 1].gear[1]),
                         x |-> w.axles[comp.axle.ix].x, y |-> w.axles[comp.axle.ix].y,
                         z |-> bt.val - FIDGET])))

\* autospacepart.generate
autospacepart_generate(w, c, i) ==
    LET comp == w.comps[c]
        p == comp.parts[i]
    IN  IF ~HasPart(comp, p.partix - 1) THEN Fail(w, "AssertionError")
        ELSE
        Bind(parttop(w, c, i - 1), LAMBDA bt :
            IF bt.exc /= "" THEN bt
            ELSE IF comp.parts[i - 1].ptype /= "gear" THEN Fail(bt.w, "AttributeError")
            ELSE IF ~HasPart(comp, p.partix + 1) THEN Fail(bt.w, "AssertionError")
            ELSE
            Bind(partbase(bt.w, comp.parts[i + 1]), LAMBDA ab :
                IF ab.exc /= "" THEN Fail(bt.w, ab.exc)
                ELSE IF comp.axle.cls /= "axle" THEN Fail(bt.w, "AttributeError")
                ELSE Done(bt.w,
                        [shape |-> "cylinder", h |-> ab.val - bt.val,
                         r1 |-> IF p.sloped
                                THEN innerRadius(bt.w, comp.parts[i - 1].gear[1])
                                ELSE outerRadius(bt.w, comp.parts[i + 1].gear[1]),
                         r2 |-> outerRadius(bt.w, comp.parts[i + 1].gear[1]),
                         x |-> w.axles[comp.axle.ix].x, y |-> w.axles[comp.axle.ix].y,
                         z |-> bt.val - FIDGET])))

\* gearpaduppart.generate
gearpaduppart_generate(w, c, i) ==
    LET comp == w.comps[c]
        p == comp.parts[i]
    IN  IF ~HasPart(comp, p.partix - 1) THEN Fail(w, "AssertionError")
        ELSE
        Bind(parttop(w, c, i - 1), LAMBDA bt :
            IF bt.exc /= "" THEN bt
            ELSE
            Bind(parttop(bt.w, c, i), LAMBDA tp :
                IF tp.exc /= "" THEN tp
                ELSE Done(tp.w,
                        [shape |-> "chamfcylinder", h |-> tp.val - bt.val - PADFIDGET,
                         spec |-> p.partspec,
                         x |-> w.axles[comp.axle.ix].x, y |-> w.axles[comp.axle.ix].y,
                         z |-> bt.val - FIDGET])))

\* padtoPlate.generate
padtoPlate_generate(w, c, i) ==
    LET comp == w.comps[c]
        p == comp.parts[i]
    IN  IF ~HasPart(comp, p.partix - 1) THEN Fail(w, "AssertionError")
        ELSE IF comp.parts[i - 1].ptype /= "gear" THEN Fail(w, "AttributeError")
        ELSE
        Bind(parttop(w, c, i - 1), LAMBDA bt :
            IF bt.exc /= "" THEN bt
            ELSE
            Bind(parttop(bt.w, c, i), LAMBDA tp :
                IF tp.exc /= "" THEN tp
                ELSE IF comp.axle.cls /= "axle" THEN Fail(tp.w, "AttributeError")
                ELSE Done(tp.w,
                        [shape |-> "chamfcylinder", h |-> tp.val - bt.val,
                         spec |-> p.partspec,
                         x |-> w.axles[comp.axle.ix].x, y |-> w.axles[comp.axle.ix].y,
                         z |-> bt.val - 1])))

\* generate() of part i (1-based) of component c
part_generate(w, c, i) ==
    LET p == w.comps[c].parts[i]
    IN  IF p.ptype = "gear" THEN Done(w, agear_generate(w, p.gear[1]))
        ELSE IF p.ptype = "autospacer" THEN autospacepart_generate(w, c, i)
        ELSE IF p.ptype = "padup" THEN gearpaduppart_generate(w, c, i)
        ELSE padtoPlate_generate(w, c, i)

(***************************************************************************)
(* Generation: extraparts and axle components                              *)
(***************************************************************************)
\* hourhand.generate: the hand with its sleeve cut out
hourhand_generate(w, e) ==
    IF e.shaft \notin ShaftStyles THEN Raise("KeyError")
    ELSE Ret([shape |-> "hand", shaft |-> e.shaft])

\* the loop over self.parts: the geometry of parts i.. appended to acc
RECURSIVE axlecomp_union(_, _, _, _)
axlecomp_union(w, c, i, acc) ==
    IF i > Len(w.comps[c].parts) THEN Done(w, acc)
    ELSE Bind(part_generate(w, c, i), LAMBDA g :
            IF g.exc /= "" THEN g
            ELSE axlecomp_union(g.w, c, i + 1, Append(acc, g.val)))

\* one entry of finalcuts
axlecomp_cut(w, c, cp) ==
    LET comp == w.comps[c]
        n == Len(comp.parts)
    IN  IF cp.kind = "shaft" THEN
            IF n = 0 THEN Fail(w, "IndexError")
            ELSE
            Bind(partbase(w, comp.parts[1]), LAMBDA pb :
            Bind(parttop(w, c, n), LAMBDA pt :
                IF pb.exc /= "" THEN Fail(w, pb.exc)
                ELSE IF pt.exc /= "" THEN pt
                ELSE IF cp.shaftstyle \notin ShaftStyles THEN Fail(pt.w, "KeyError")
                ELSE Done(pt.w, [shape |-> "btsleeve", base |-> pb.val + cp.baseoffset,
                                 top |-> pt.val, style |-> cp.shaftstyle])))
        ELSE IF cp.kind = "fret" THEN
            IF PyPos(n, cp.fretouterpart) = 0 \/ PyPos(n, cp.fretinnerpart) = 0
            THEN Fail(w, "IndexError")
            ELSE
            LET lower == comp.parts[PyPos(n, cp.fretouterpart)]
                upper == comp.parts[PyPos(n, cp.fretinnerpart)]
            IN  Bind(partbase(w, lower), LAMBDA pb :
                Bind(parttop(w, c, PyPos(n, cp.fretinnerpart)), LAMBDA pt :
                    IF pb.exc /= "" THEN Fail(w, pb.exc)
                    ELSE IF pt.exc /= "" THEN pt
                    ELSE IF upper.ptype \notin {"gear", "padplate"}
                         THEN Fail(pt.w, "AttributeError")
                    ELSE Done(pt.w, [shape |-> "fret", base |-> pb.val - FIDGET,
                                     height |-> pt.val + 2 * FIDGET - (pb.val - FIDGET),
                                     outerdia |-> innerRadius(w, lower.gear[1]) * 2 - 300])))
        ELSE
            Bind(IF cp.partgroup \in DOMAIN w.allnames
                 THEN OD_getitem(w.allnames[cp.partgroup], cp.partname)
                 ELSE Raise("KeyError"), LAMBDA r :
                IF r.exc /= "" THEN Fail(w, r.exc)
                ELSE IF r.val.cls /= "extrapart" THEN Fail(w, "AttributeError")
                ELSE Bind(hourhand_generate(w, w.extras[r.val.ix]), LAMBDA g :
                        IF g.exc /= "" THEN Fail(w, g.exc) ELSE Done(w, g.val)))

\* the loop over self.finalcuts
RECURSIVE axlecomp_cuts(_, _, _, _)
axlecomp_cuts(w, c, i, acc) ==
    IF i > Len(w.comps[c].finalcuts) THEN Done(w, acc)
    ELSE Bind(axlecomp_cut(w, c, w.comps[c].finalcuts[i]), LAMBDA s :
            IF s.exc /= "" THEN s
            ELSE axlecomp_cuts(s.w, c, i + 1, Append(acc, s.val)))

\* axlecomp.generate with the cuts kept in a local name: self.cutout is
\* never assigned
axlecomp_generate_uncached(w, c) ==
    IF w.comps[c].stage < 2 THEN Fail(w, "AttributeError")
    ELSE
    Bind(axlecomp_union(w, c, 1, <<>>), LAMBDA u :
        IF u.exc /= "" THEN u
        ELSE IF u.w.comps[c].cutout /= <<>> THEN
            Done(u.w, [union |-> u.val, cutout |-> u.w.comps[c].cutout[1]])
        ELSE IF u.w.comps[c].stage < 4 THEN Fail(u.w, "AttributeError")
        ELSE IF Len(u.w.comps[c].finalcuts) = 0 THEN
            Done(u.w,
                 [union |-> u.val, cutout |-> <<>>])
        ELSE
            Bind(axlecomp_cuts(u.w, c, 1, <<>>), LAMBDA k :
                IF k.exc /= "" THEN k
                ELSE Done(k.w,
                          [union |-> u.val, cutout |-> k.val])))

\* axlecomp.generate; cutout is absent (<<>>) or holds None (<<<<>>>>) or the
\* union of the cuts (<<cuts>>)
axlecomp_generate(w, c) ==
    IF w.comps[c].stage < 2 THEN Fail(w, "AttributeError")
    ELSE
    Bind(axlecomp_union(w, c, 1, <<>>), LAMBDA u :
        IF u.exc /= "" THEN u
        ELSE IF u.w.comps[c].cutout /= <<>> THEN
            Done(u.w, [union |-> u.val, cutout |-> u.w.comps[c].cutout[1]])
        ELSE IF u.w.comps[c].stage < 4 THEN Fail(u.w, "AttributeError")
        ELSE IF Len(u.w.comps[c].finalcuts) = 0 THEN
            Done([u.w EXCEPT !.comps[c].cutout = << <<>> >>],
                 [union |-> u.val, cutout |-> <<>>])
        ELSE
            Bind(axlecomp_cuts(u.w, c, 1, <<>>), LAMBDA k :
                IF k.exc /= "" THEN k
                ELSE Done([k.w EXCEPT !.comps[c].cutout = <<k.val>>],
                          [union |-> u.val, cutout |-> k.val])))

(***************************************************************************)
(* Generation: axle pads and cuts, plates                                  *)
(***************************************************************************)
\* axle.getpadheight(baseup=True): None is <<>>
getpadheight_baseup(w, a) ==
    IF Len(w.axles[a].compolist) > 0
    THEN Bind(compbase(w, w.comps[w.axles[a].compolist[1]]), LAMBDA b :
            IF b.exc /= "" THEN b ELSE Ret(<<b.val>>))
    ELSE Ret(<<>>)

\* axle.getpadheight(baseup): None is <<>>
getpadheight(w, a, baseup) ==
    LET compolist == w.axles[a].compolist
    IN  IF Len(compolist) = 0 THEN Done(w, <<>>)
        ELSE IF baseup THEN
            Bind(compbase(w, w.comps[compolist[1]]), LAMBDA b :
                IF b.exc /= "" THEN Fail(w, b.exc) ELSE Done(w, <<b.val>>))
        ELSE
            Bind(comptop(w, compolist[Len(compolist)]), LAMBDA t :
                IF t.exc /= "" THEN t ELSE Done(t.w, <<t.val>>))

\* axle.generatepadup: a part that yields None has val = <<>>
generatepadup(w, a, kw) ==
    IF kw.height /= <<>> /\ kw.height /= <<0>> THEN
        Done([w EXCEPT !.axles[a].padheight = kw.height],
             <<[shape |-> "chamfcylinder", h |-> kw.height[1], spec |-> <<>>,
                x |-> w.axles[a].x, y |-> w.axles[a].y, z |-> 0]>>)
    ELSE IF kw.padtocomp /= <<>> /\ kw.padtocomp /= <<0>> THEN
        Bind(getpadheight_baseup(w, a), LAMBDA ph :
            IF ph.exc /= "" THEN Fail(w, ph.exc)
            ELSE IF ph.val = <<>> THEN
                Fail([w EXCEPT !.axles[a].padheight = <<>>], "TypeError")
            ELSE Done([w EXCEPT !.axles[a].padheight = <<ph.val[1] - kw.padtocomp[1]>>],
                      <<[shape |-> "chamfcylinder", h |-> ph.val[1] - kw.padtocomp[1],
                         spec |-> <<>>,
                         x |-> w.axles[a].x, y |-> w.axles[a].y, z |-> 0]>>))
    ELSE Done(w, <<>>)

\* axle.generatePlatecut
generatePlatecut(w, a, kw) ==
    IF w.axles[a].padheight = <<>> THEN Fail(w, "TypeError")
    ELSE IF kw.shaftargs \notin ShaftStyles THEN Fail(w, "KeyError")
    ELSE Done(w, <<[shape |-> "btsleeve",
                    base |-> IF kw.blanked /= <<>> THEN kw.base + kw.blanked[1]
                                                   ELSE kw.base,
                    top |-> kw.top + w.axles[a].padheight[1],
                    style |-> kw.shaftargs]>>)

\* smartPart._trassemble: call the generator, translate what it returns
trassemble(w, part) ==
    Bind(IF part.partgen = "generatepadup" THEN generatepadup(w, part.axle, part.kw)
         ELSE IF part.partgen = "generatePlatecut"
              THEN generatePlatecut(w, part.axle, part.kw)
         ELSE Done(w, <<[shape |-> "chamfcylinder", h |-> part.kw.h, spec |-> <<>>,
                         x |-> 0, y |-> 0, z |-> 0]>>), LAMBDA a :
        IF a.exc /= "" \/ a.val = <<>> \/ part.tr = <<>> THEN a
        ELSE Done(a.w, <<[shape |-> "translate", by |-> part.tr, child |-> a.val[1]]>>))

\* smartPart._assemble that adds every result, a None one as a null child
RECURSIVE assemble_nullchild(_, _, _, _)
assemble_nullchild(w, partset, i, acc) ==
    IF i > Len(partset) THEN Done(w, acc)
    ELSE Bind(trassemble(w, partset[i]), LAMBDA p :
            IF p.exc /= "" THEN p
            ELSE assemble_nullchild(p.w, partset, i + 1,
                    acc \o (IF p.val = <<>> THEN <<[shape |-> "None"]>> ELSE p.val)))

\* smartPart._assemble: the non-None results of the parts, in order
RECURSIVE assemble(_, _, _, _)
assemble(w, partset, i, acc) ==
    IF i > Len(partset) THEN Done(w, acc)
    ELSE Bind(trassemble(w, partset[i]), LAMBDA p :
            IF p.exc /= "" THEN p
            ELSE assemble(p.w, partset, i + 1, acc \o p.val))

\* smartPart.generate: an empty band is no node at all; None is <<>>
smartPart_generate(w, pl) ==
    Bind(assemble(w, w.plates[pl].hull, 1, <<>>), LAMBDA u :
        IF u.exc /= "" THEN u
        ELSE
        Bind(assemble(u.w, w.plates[pl].extra, 1, <<>>), LAMBDA x :
            IF x.exc /= "" THEN x
            ELSE IF x.val = <<>> /\ u.val = <<>> THEN Done(x.w, <<>>)
            ELSE
            Bind(assemble(x.w, w.plates[pl].cuts, 1, <<>>), LAMBDA z :
                IF z.exc /= "" THEN z
                ELSE Done(z.w, <<[hull |-> u.val, extra |-> x.val, cuts |-> z.val]>>))))

(***************************************************************************)
(* yieldunit: selection expansion                                          *)
(***************************************************************************)
SelAll == [t |-> "all", one |-> OtherArg, many |-> <<>>]

SelOne(a) == [t |-> a.t, one |-> a, many |-> <<>>]

SelMany(l) == [t |-> "list", one |-> OtherArg, many |-> l]

\* one int or str of a selector
yieldunit_item(typelist, unitid) ==
    IF unitid.t = "int" THEN OD_index(typelist, unitid.i)
    ELSE IF unitid.t = "str" THEN OD_getitem(typelist, unitid.s)
    ELSE Raise("ValueError")

\* the entities one (namespace, selector) pair yields, or the exception
yieldunit_group(w, pgroup) ==
    IF pgroup.ns \notin DOMAIN w.allnames THEN Raise("KeyError")
    ELSE
    LET typelist == w.allnames[pgroup.ns]
        sel == pgroup.sel
    IN  IF sel.t = "all" THEN Ret(OD_values(typelist))
        ELSE IF sel.t \in {"int", "str"} THEN
            Bind(yieldunit_item(typelist, sel.one), LAMBDA r :
                IF r.exc /= "" THEN r ELSE Ret(<<r.val>>))
        ELSE
            Bind([i \in 1..Len(sel.many) |-> yieldunit_item(typelist, sel.many[i])],
                 LAMBDA rs :
                LET bad == {i \in 1..Len(sel.many) : rs[i].exc /= ""}
                IN  IF bad = {} THEN Ret([i \in 1..Len(sel.many) |-> rs[i].val])
                    ELSE Raise(rs[CHOOSE i \in bad : \A j \in bad : i <= j].exc))

\* yieldunit that yields the later pairs of plist first
RECURSIVE yieldunit_backwards(_, _)
yieldunit_backwards(w, plist) ==
    IF plist = <<>> THEN Ret(<<>>)
    ELSE Bind(yieldunit_group(w, Head(plist)), LAMBDA h :
            IF h.exc /= "" THEN h
            ELSE Bind(yieldunit_backwards(w, Tail(plist)), LAMBDA t :
                    IF t.exc /= "" THEN t
                    ELSE Ret(t.val \o h.val)))

\* list(yieldunit(plist)) as rendx builds it
RECURSIVE yieldunit(_, _)
yieldunit(w, plist) ==
    IF plist = <<>> THEN Ret(<<>>)
    ELSE Bind(yieldunit_group(w, Head(plist)), LAMBDA h :
            IF h.exc /= "" THEN h
            ELSE Bind(yieldunit(w, Tail(plist)), LAMBDA t :
                    IF t.exc /= "" THEN t
                    ELSE Ret(h.val \o t.val)))

(***************************************************************************)
(* Declarations the model draws from                                       *)
(***************************************************************************)
StyleDecls ==
    { [name |-> "small", offset |-> 0, height |-> 2500, clearance |-> 200],
      [name |-> "large", offset |-> 625, height |-> 1250, clearance |-> 200] }

\* every distance between two of these positions is a whole number
PlateDecls ==
    { [name |-> "base", thickness |-> 0 - 3000, zoffset |-> 0],
      [name |-> "top", thickness |-> 3000, zoffset |-> 16000] }

HandDecls == { [name |-> "hand", shaft |-> "bt4mm"], [name |-> "hand", shaft |-> "bt9mm"] }

\* the entry of one plate in the plates argument of axle
PlateInfo(platename, support, padup, axlecut) ==
    [platename |-> platename, support |-> support, padup |-> padup, axlecut |-> axlecut]

Padup(height, padtocomp) == <<[height |-> height, padtocomp |-> padtocomp]>>

Axlecut(blanked, shaftargs) == <<[blanked |-> blanked, shaftargs |-> shaftargs]>>

AxleDecl(name, x, y, infos) == [name |-> name, x |-> x, y |-> y, plates |-> infos]

\* every distance between two of these positions is a whole number
AxleDecls ==
    { AxleDecl("a1", 0, 0, <<PlateInfo(StrArg("base"), TRUE, Padup(<<>>, <<50>>),
                                       Axlecut(<<1000>>, "bt3mm")),
                             PlateInfo(StrArg("top"), TRUE, <<>>, Axlecut(<<>>, "bt5mm"))>>),
      AxleDecl("a2", 3, 0, <<PlateInfo(StrArg("base"), TRUE, Padup(<<2000>>, <<>>), <<>>)>>),
      AxleDecl("a2", 3, 4, <<>>) }

PairDecl(name, prim, seco, pt, st, bo) ==
    [name |-> name, prim_axle |-> prim, seco_axle |-> seco,
     primteeth |-> pt, secoteeth |-> st, baseoffset |-> bo]

PairDecls ==
    { PairDecl("g1", StrArg("a1"), StrArg("a2"), 1, 2, 5000),
      PairDecl("g2", StrArg("a2"), StrArg("a1"), 2, 1, 1000),
      PairDecl("g3", IntArg(0), IntArg(0 - 1), 2, 2, 3000),
      PairDecl("g1", StrArg("a1"), StrArg("a2"), 1, 3, 0),
      PairDecl("g2", StrArg("a1"), StrArg("a1"), 1, 1, 1000) }

GearDef(gearpr) ==
    [parttype |-> "gear", gearpr |-> gearpr, sloped |-> TRUE, clearance |-> 0,
     platename |-> StrArg(""), partspec |-> <<>>]

SpacerDef(sloped) ==
    [parttype |-> "autospacer", gearpr |-> StrArg(""), sloped |-> sloped,
     clearance |-> 0, platename |-> StrArg(""), partspec |-> <<>>]

PadupDef(clearance) ==
    [parttype |-> "padup", gearpr |-> StrArg(""), sloped |-> TRUE,
     clearance |-> clearance, platename |-> StrArg(""), partspec |-> <<>>]

PadplateDef(platename) ==
    [parttype |-> "padplate", gearpr |-> StrArg(""), sloped |-> TRUE,
     clearance |-> 0, platename |-> platename, partspec |-> <<>>]

ShaftCut(shaftstyle, baseoffset) ==
    [kind |-> "shaft", shaftstyle |-> shaftstyle, baseoffset |-> baseoffset,
     fretouterpart |-> 0, fretinnerpart |-> 0, partgroup |-> "", partname |-> ""]

FretCut(outer, inner) ==
    [kind |-> "fret", shaftstyle |-> "", baseoffset |-> 0,
     fretouterpart |-> outer, fretinnerpart |-> inner, partgroup |-> "", partname |-> ""]

GroupCut(partgroup, partname) ==
    [kind |-> "partgroup", shaftstyle |-> "", baseoffset |-> 0,
     fretouterpart |-> 0, fretinnerpart |-> 0, partgroup |-> partgroup,
     partname |-> partname]

CompDeclCut(name, caxle, partlist, finalcuts) ==
    [name |-> name, caxle |-> caxle, partlist |-> partlist, finalcuts |-> finalcuts]

CompDecl(name, caxle, partlist) == CompDeclCut(name, caxle, partlist, <<>>)

\* components on axle a1 whose first part is a gear
GoodCompDecls ==
    { CompDecl("c1", StrArg("a1"), <<GearDef(StrArg("g1")), PadupDef(10)>>),
      CompDeclCut("c2", StrArg("a1"), <<GearDef(StrArg("g2")), SpacerDef(TRUE),
                                        GearDef(StrArg("g3")), PadupDef(10)>>,
                  <<ShaftCut("bt4mm", 1500), FretCut(0, 2), GroupCut("extrapart", "hand")>>),
      CompDecl("c3", StrArg("a1"), <<GearDef(StrArg("g3")), PadupDef(10)>>),
      CompDeclCut("c4", IntArg(0), <<GearDef(IntArg(2)), PadplateDef(StrArg("top"))>>,
                  <<ShaftCut("bt3mm", 0), FretCut(0, 1)>>),
      CompDecl("c1", StrArg("a1"), <<GearDef(StrArg("g2"))>>) }

\* declarations that fail part of the way through the constructor
BadCompDecls ==
    { CompDecl("c3", StrArg("a2"), <<GearDef(StrArg("g3"))>>),
      CompDecl("c5", StrArg("a1"), <<>>) }

CompDecls == GoodCompDecls \cup BadCompDecls

\* arguments of the read-only calls
ResolveNamespaces == {"axle"}

ResolveNames ==
    { StrArg("a1"), StrArg("zz"), IntArg(0), IntArg(0 - 1), IntArg(3), IntArg(0 - 4),
      ObjArg(Ref("axle", 1)), OtherArg }

Selections ==
    { <<[ns |-> "axle", sel |-> SelAll]>>,
      <<[ns |-> "axlecomp", sel |-> SelOne(IntArg(0))],
        [ns |-> "axle", sel |-> SelOne(StrArg("a1"))]>>,
      <<[ns |-> "gearpair", sel |-> SelMany(<<IntArg(1), StrArg("g1"), IntArg(1)>>)]>>,
      <<[ns |-> "axle", sel |-> SelMany(<<StrArg("a2"), IntArg(0 - 1)>>)],
        [ns |-> "gearstyle", sel |-> SelAll]>>,
      <<[ns |-> "axle", sel |-> SelMany(<<StrArg("a2"), IntArg(0), StrArg("a2")>>)],
        [ns |-> "gearstyle", sel |-> SelAll],
        [ns |-> "axle", sel |-> SelOne(IntArg(1))]>>,
      <<[ns |-> "axle", sel |-> SelOne(StrArg("zz"))]>>,
      <<[ns |-> "axle", sel |-> SelMany(<<IntArg(0), OtherArg>>)]>> }

GearsArgs == {"both", "prim", "seco", "all"}

(***************************************************************************)
(* Scenes: the state a declaration script has built so far                 *)
(***************************************************************************)
Declare(w, e) ==
    IF e.cls = "gearstyle" THEN gearstyle_init(w, e.d).w
    ELSE IF e.cls = "axle" THEN axle_init(w, e.d).w
    ELSE IF e.cls = "gearpair" THEN gearpair_init(w, e.d).w
    ELSE IF e.cls = "plate" THEN plate_init(w, e.d).w
    ELSE IF e.cls = "hourhand" THEN hourhand_init(w, e.d).w
    ELSE axlecomp_init(w, e.d).w

RECURSIVE RunScript(_, _)
RunScript(w, script) ==
    IF script = <<>> THEN w
    ELSE CHOOSE r \in {RunScript(w1, Tail(script)) : w1 \in {Declare(w, Head(script))}} : TRUE

StyleScript ==
    << [cls |-> "gearstyle", d |-> [name |-> "small", offset |-> 0, height |-> 2500,
                                    clearance |-> 200]],
       [cls |-> "gearstyle", d |-> [name |-> "large", offset |-> 625, height |-> 1250,
                                    clearance |-> 200]] >>

PlateScript ==
    << [cls |-> "plate", d |-> [name |-> "base", thickness |-> 0 - 3000, zoffset |-> 0]],
       [cls |-> "plate", d |-> [name |-> "top", thickness |-> 3000, zoffset |-> 16000]] >>

AxleScript ==
    << [cls |-> "axle", d |->
            AxleDecl("a1", 0, 0, <<PlateInfo(StrArg("base"), TRUE, Padup(<<>>, <<50>>),
                                             Axlecut(<<1000>>, "bt3mm")),
                                   PlateInfo(StrArg("top"), TRUE, <<>>,
                                             Axlecut(<<>>, "bt5mm"))>>)],
       [cls |-> "axle", d |->
            AxleDecl("a2", 3, 0, <<PlateInfo(StrArg("base"), TRUE, <<>>, <<>>)>>)],
       [cls |-> "axle", d |-> AxleDecl("a3", 0, 4, <<>>)] >>

PairScript ==
    << [cls |-> "gearpair", d |-> PairDecl("g1", StrArg("a1"), StrArg("a2"), 1, 2, 5000)],
       [cls |-> "gearpair", d |-> PairDecl("g2", StrArg("a2"), StrArg("a1"), 2, 1, 1000)],
       [cls |-> "gearpair", d |-> PairDecl("g3", StrArg("a1"), StrArg("a3"), 2, 2, 3000)] >>

StyleScene == RunScript(EmptyWorld, StyleScript)

PlateScene == RunScript(StyleScene, PlateScript)

AxleScene == RunScript(PlateScene, AxleScript)

PairScene == RunScript(AxleScene, PairScript)

CompScript ==
    << [cls |-> "hourhand", d |-> [name |-> "hand", shaft |-> "bt4mm"]],
       [cls |-> "axlecomp", d |->
            CompDecl("c1", StrArg("a1"), <<GearDef(StrArg("g1")), PadupDef(10)>>)],
       [cls |-> "axlecomp", d |->
            CompDeclCut("c2", StrArg("a1"), <<GearDef(StrArg("g2")), SpacerDef(TRUE),
                                              GearDef(StrArg("g3")), PadupDef(10)>>,
                        <<ShaftCut("bt4mm", 1500), FretCut(0, 2),
                          GroupCut("extrapart", "hand")>>)],
       [cls |-> "axlecomp", d |->
            CompDeclCut("c4", StrArg("a3"), <<GearDef(StrArg("g3")),
                                              PadplateDef(StrArg("top"))>>,
                        <<ShaftCut("bt3mm", 0)>>)] >>

CompScene == RunScript(PairScene, CompScript)

\* a scene after declarations that failed or re-used a name
FaultScript ==
    << [cls |-> "gearpair", d |-> PairDecl("g1", StrArg("a1"), StrArg("a2"), 1, 3, 5000)],
       [cls |-> "axle", d |-> AxleDecl("a2", 3, 4, <<>>)],
       [cls |-> "hourhand", d |-> [name |-> "hand", shaft |-> "bt9mm"]],
       [cls |-> "axlecomp", d |->
            CompDecl("c1", StrArg("a2"), <<GearDef(StrArg("g2")), PadupDef(10)>>)] >>

FaultScene == RunScript(CompScene, FaultScript)

Scenes == {EmptyWorld, AxleScene, PairScene, CompScene, FaultScene}

(***************************************************************************)
(* State machine                                                           *)
(***************************************************************************)
NoResult == [op |-> "", arg |-> <<>>, exc |-> "", val |-> None]

SetWorld(w) ==
    /\ allnames' = w.allnames
    /\ styles' = w.styles
    /\ axles' = w.axles
    /\ pairs' = w.pairs
    /\ comps' = w.comps
    /\ plates' = w.plates
    /\ extras' = w.extras

InitFrom(w) ==
    /\ allnames = w.allnames
    /\ styles = w.styles
    /\ axles = w.axles
    /\ pairs = w.pairs
    /\ comps = w.comps
    /\ plates = w.plates
    /\ extras = w.extras
    /\ result = NoResult
    /\ ndecl = 0

Init == \E w \in Scenes : InitFrom(w)

\* a constructor call: whatever it changed stays, also when it raised
Construct(op, d, out) ==
    \E o \in {out} :
        /\ SetWorld(o.w)
        /\ result' = [op |-> op, arg |-> d, exc |-> o.exc, val |-> o.val]
        /\ ndecl' = ndecl + 1

DeclGearstyle(limit) ==
    /\ ndecl < limit
    /\ \E d \in StyleDecls : Construct("gearstyle", d, gearstyle_init(World, d))

DeclPlate(limit) ==
    /\ ndecl < limit
    /\ \E d \in PlateDecls : Construct("plate", d, plate_init(World, d))

DeclHand(limit) ==
    /\ ndecl < limit
    /\ \E d \in HandDecls : Construct("hourhand", d, hourhand_init(World, d))

DeclAxle(limit) ==
    /\ ndecl < limit
    /\ \E d \in AxleDecls : Construct("axle", d, axle_init(World, d))

DeclGearpair(limit) ==
    /\ ndecl < limit
    /\ \E d \in PairDecls : Construct("gearpair", d, gearpair_init(World, d))

DeclAxlecomp(limit) ==
    /\ ndecl < limit
    /\ \E d \in CompDecls : Construct("axlecomp", d, axlecomp_init(World, d))

\* a call that leaves the world as it is
Query(op, a, r) ==
    \E o \in {r} :
        /\ result' = [op |-> op, arg |-> a, exc |-> o.exc, val |-> o.val]
        /\ UNCHANGED <<allnames, styles, axles, pairs, comps, plates, extras, ndecl>>

\* a call that may change the world without declaring anything
Call(op, a, out) ==
    \E o \in {out} :
        /\ SetWorld(o.w)
        /\ result' = [op |-> op, arg |-> a, exc |-> o.exc, val |-> o.val]
        /\ UNCHANGED ndecl

\* an object reference handed to a call must be a live object
Live(w, r) ==
    \/ r.cls = "axle" /\ r.ix \in 1..Len(w.axles)
    \/ r.cls = "gearstyle" /\ r.ix \in 1..Len(w.styles)
    \/ r.cls = "gearpair" /\ r.ix \in 1..Len(w.pairs)
    \/ r.cls = "axlecomp" /\ r.ix \in 1..Len(w.comps)
    \/ r.cls = "plate" /\ r.ix \in 1..Len(w.plates)
    \/ r.cls = "extrapart" /\ r.ix \in 1..Len(w.extras)

Resolve ==
    \E ns \in ResolveNamespaces, nm \in ResolveNames, ne \in BOOLEAN :
        /\ nm.t = "obj" => Live(World, nm.o)
        /\ Call("resolvename", [namespace |-> ns, name |-> nm, noexcept |-> ne],
                resolvename(World, ns, nm, ne))

Select == \E plist \in Selections : Query("yieldunit", plist, yieldunit(World, plist))

GenAxlecomp ==
    \E c \in 1..Len(comps) : Call("axlecomp.generate", c, axlecomp_generate(World, c))

GenPlate == \E pl \in 1..Len(plates) : Call("plate.generate", pl, smartPart_generate(World, pl))

GenHand ==
    \E e \in 1..Len(extras) : Query("hourhand.generate", e, hourhand_generate(World, extras[e]))

GenGearpair ==
    \E i \in 1..Len(pairs), gears \in GearsArgs :
        Query("gearpair.generate", [pair |-> i, gears |-> gears],
              gearpair_generate(World, pairs[i], gears))

Next ==
    \/ DeclGearstyle(MaxMixDecl)
    \/ DeclPlate(MaxMixDecl)
    \/ DeclHand(MaxMixDecl)
    \/ DeclAxle(MaxMixDecl)
    \/ DeclGearpair(MaxMixDecl)
    \/ DeclAxlecomp(MaxMixDecl)
    \/ Resolve
    \/ Select
    \/ GenGearpair
    \/ GenAxlecomp
    \/ GenPlate
    \/ GenHand

Spec == Init /\ [][Next]_vars

(***************************************************************************)
(* Generation specification: queries and generation on declared scenes     *)
(***************************************************************************)
NextGen ==
    \/ Resolve
    \/ Select
    \/ GenGearpair
    \/ GenAxlecomp
    \/ GenPlate
    \/ GenHand

SpecGen == Init /\ [][NextGen]_vars

(***************************************************************************)
(* Declaration specification: a declaration pass without generation        *)
(***************************************************************************)
NextDecl ==
    \/ DeclGearstyle(MaxDecl)
    \/ DeclPlate(MaxDecl)
    \/ DeclHand(MaxDecl)
    \/ DeclAxle(MaxDecl)
    \/ DeclGearpair(MaxDecl)
    \/ DeclAxlecomp(MaxDecl)

SpecDecl == Init /\ [][NextDecl]_vars

(***************************************************************************)
(* Layout specification: components declared on the axles of PairScene     *)
(***************************************************************************)
InitLayout == InitFrom(PairScene)

LayoutAxlecomp ==
    /\ Len(comps) < MaxComps
    /\ \E d \in CompDecls : Construct("axlecomp", d, axlecomp_init(World, d))

NextLayout == LayoutAxlecomp

SpecLayout == InitLayout /\ [][NextLayout]_vars

(***************************************************************************)
(* Pitch specification: fit_spur_gears on tooth counts and distances       *)
(***************************************************************************)
\* the arguments of the call that is about to be made
InitFit ==
    /\ allnames = EmptyWorld.allnames
    /\ styles = <<>>
    /\ axles = <<>>
    /\ pairs = <<>>
    /\ comps = <<>>
    /\ plates = <<>>
    /\ extras = <<>>
    /\ ndecl = 0
    /\ \E teetha \in 1..MaxTeeth, teethb \in 1..MaxTeeth, spacing \in 0..MaxSpacing :
            result = [op |-> "", exc |-> "", val |-> None,
                      arg |-> [teetha |-> teetha, teethb |-> teethb,
                               spacing |-> spacing]]

FitGears ==
    /\ result.op = ""
    /\ result.arg /= <<>>
    /\ Query("fit_spur_gears", result.arg,
             fit_spur_gears(result.arg.teetha, result.arg.teethb, result.arg.spacing))

NextFit == FitGears

SpecFit == InitFit /\ [][NextFit]_vars

(***************************************************************************)
(* Parts specification: the components of a layout are declared on the     *)
(* axles of PartScene, then their parts and axles are queried.  As in      *)
(* clock1, nothing is declared once the first query has been made.         *)
(***************************************************************************)
\* components that exercise each kind of part and each missing neighbour
PartCompDecls ==
    { CompDecl("c1", StrArg("a1"), <<GearDef(StrArg("g1")), PadupDef(10)>>),
      CompDecl("c2", StrArg("a1"), <<GearDef(StrArg("g2")), SpacerDef(TRUE),
                                     GearDef(StrArg("g1")), PadupDef(10)>>),
      CompDecl("c4", StrArg("a1"), <<GearDef(StrArg("g4")), PadplateDef(StrArg("top"))>>),
      CompDecl("c5", StrArg("a2"), <<GearDef(StrArg("g2")), SpacerDef(FALSE),
                                     GearDef(StrArg("g1"))>>),
      CompDecl("c6", StrArg("a1"), <<SpacerDef(TRUE), GearDef(StrArg("g1")),
                                     GearDef(StrArg("g2"))>>),
      CompDecl("c9", StrArg("a1"), <<GearDef(StrArg("g2")), SpacerDef(FALSE)>>),
      CompDecl("c7", StrArg("a1"), <<GearDef(StrArg("g1"))>>),
      CompDecl("c8", StrArg("a3"), <<GearDef(StrArg("g1"))>>) }

\* PairScene with a pair whose gears sit at base offset 0
PartScript ==
    << [cls |-> "gearpair", d |-> PairDecl("g4", StrArg("a1"), StrArg("a2"), 1, 2, 0)] >>

PartScene == RunScript(PairScene, PartScript)

InitParts == InitFrom(PartScene)

PartsAxlecomp ==
    /\ result.op \in {"", "axlecomp"}
    /\ Len(comps) < MaxParts
    /\ \E d \in PartCompDecls : Construct("axlecomp", d, axlecomp_init(World, d))

PartTop ==
    \E c \in 1..Len(comps) : \E i \in 1..Len(comps[c].parts) :
        Call("parttop", [comp |-> c, part |-> i], parttop(World, c, i))

PartGenerate ==
    \E c \in 1..Len(comps) : \E i \in 1..Len(comps[c].parts) :
        Call("part.generate", [comp |-> c, part |-> i], part_generate(World, c, i))

PadHeight ==
    \E a \in 1..Len(axles), baseup \in BOOLEAN :
        Call("axle.getpadheight", [axle |-> a, baseup |-> baseup],
             getpadheight(World, a, baseup))

CompIndex ==
    \E a \in 1..Len(axles), c \in 1..Len(comps) :
        Call("axle.getcompindex", [axle |-> a, comp |-> c], getcompindex(World, a, c))

GearSide ==
    \E i \in 1..Len(pairs), a \in 1..Len(axles) :
        Query("gearpair.axlegearisprim", [pair |-> i, axle |-> a],
              axlegearisprim(World, pairs[i], Ref("axle", a)))

NextParts ==
    \/ PartsAxlecomp
    \/ PartTop
    \/ PartGenerate
    \/ PadHeight
    \/ CompIndex
    \/ GearSide

SpecParts == InitParts /\ [][NextParts]_vars

(***************************************************************************)
(* Session specification: components are declared on the axles of          *)
(* PartScene while plates, components and part tops are generated and      *)
(* queried in between, as a caller that renders during construction does   *)
(***************************************************************************)
InitSession == InitFrom(PartScene)

SessionAxlecomp ==
    /\ Len(comps) < MaxParts
    /\ \E d \in PartCompDecls : Construct("axlecomp", d, axlecomp_init(World, d))

NextSession ==
    \/ SessionAxlecomp
    \/ PartTop
    \/ GenAxlecomp
    \/ GenPlate

SpecSession == InitSession /\ [][NextSession]_vars

(***************************************************************************)
(* Band specification: axles that add supports, pads and cuts to the       *)
(* plates of CompScene, some of the pads yielding nothing, and generation  *)
(***************************************************************************)
\* a pad with neither height nor padtocomp, or with height 0, yields None
BandAxleDecls ==
    { AxleDecl("a4", 3, 4, <<PlateInfo(StrArg("top"), FALSE, Padup(<<>>, <<>>), <<>>)>>),
      AxleDecl("a5", 3, 4, <<PlateInfo(StrArg("base"), TRUE, Padup(<<1000>>, <<>>), <<>>)>>),
      AxleDecl("a6", 0, 4, <<PlateInfo(StrArg("base"), FALSE, Padup(<<0>>, <<>>),
                                       Axlecut(<<>>, "bt3mm"))>>),
      AxleDecl("a7", 3, 0, <<PlateInfo(StrArg("base"), TRUE, Padup(<<>>, <<>>), <<>>),
                             PlateInfo(StrArg("top"), FALSE, Padup(<<>>, <<>>), <<>>)>>) }

InitBands == InitFrom(CompScene)

BandsAxle ==
    /\ ndecl < MaxDecl
    /\ \E d \in BandAxleDecls : Construct("axle", d, axle_init(World, d))

NextBands ==
    \/ BandsAxle
    \/ GenPlate
    \/ GenAxlecomp

SpecBands == InitBands /\ [][NextBands]_vars

(***************************************************************************)
(* Chamfer specification: chamfcylinder on heights and chamfer depths      *)
(***************************************************************************)
Chamfers == {<<>>} \cup {<<c>> : c \in (0 - MaxChamfer)..MaxChamfer}

InitChamfer ==
    /\ allnames = EmptyWorld.allnames
    /\ styles = <<>>
    /\ axles = <<>>
    /\ pairs = <<>>
    /\ comps = <<>>
    /\ plates = <<>>
    /\ extras = <<>>
    /\ ndecl = 0
    /\ \E h \in (0 - MaxHeight)..MaxHeight, chamtop \in Chamfers, chambase \in Chamfers :
            result = [op |-> "", exc |-> "", val |-> None,
                      arg |-> [h |-> h, chamtop |-> chamtop, chambase |-> chambase]]

Chamfer ==
    /\ result.op = ""
    /\ result.arg /= <<>>
    /\ Query("chamfcylinder", result.arg,
             chamfcylinder(result.arg.h, result.arg.chamtop, result.arg.chambase))

NextChamfer == Chamfer

SpecChamfer == InitChamfer /\ [][NextChamfer]_vars

(***************************************************************************)
(* Arc specification: polycircle on radii, sides and angles                *)
(***************************************************************************)
InitArc ==
    /\ allnames = EmptyWorld.allnames
    /\ styles = <<>>
    /\ axles = <<>>
    /\ pairs = <<>>
    /\ comps = <<>>
    /\ plates = <<>>
    /\ extras = <<>>
    /\ ndecl = 0
    /\ \E rad \in {1000, 10000}, sides \in 2..MaxSides, isouter \in BOOLEAN,
          f \in 0..MaxArcSteps, t \in 0..MaxArcSteps :
            /\ f <= t
            /\ result = [op |-> "", exc |-> "", val |-> None,
                         arg |-> [rad |-> rad, sides |-> sides, isouter |-> isouter,
                                  ang_from |-> 10 * f, ang_to |-> 10 * t]]

Polycircle ==
    /\ result.op = ""
    /\ result.arg /= <<>>
    /\ Query("polycircle", result.arg,
             polycircle(result.arg.rad, result.arg.sides, result.arg.isouter,
                        result.arg.ang_from, result.arg.ang_to))

NextArc == Polycircle

SpecArc == InitArc /\ [][NextArc]_vars

(***************************************************************************)
(* Properties                                                              *)
(***************************************************************************)
\* the base z of the component at position i of an axle's list
BaseAt(ax, i) == compbase(World, comps[ax.compolist[i]])

\* C1: every axle's component list is sorted in non-decreasing order of
\* compbase(), whatever the order of the declarations (equal bases included)
C1_CompolistSorted ==
    \A a \in 1..Len(axles) :
        Len(axles[a].compolist) >= 2 =>
            /\ \A i \in 1..Len(axles[a].compolist) : BaseAt(axles[a], i).exc = ""
            /\ \A i \in 1..(Len(axles[a].compolist) - 1) :
                    BaseAt(axles[a], i).val <= BaseAt(axles[a], i + 1).val

\* three components on one axle, the last declared one not at the end
C1_Witness ==
    \E a \in 1..Len(axles) :
        /\ Len(axles[a].compolist) >= 3
        /\ axles[a].compolist[Len(axles[a].compolist)] /= Len(comps)
        /\ \E i \in 1..(Len(axles[a].compolist) - 1) :
                BaseAt(axles[a], i).val = BaseAt(axles[a], i + 1).val

\* is the string registered in the namespace
Registered(ns, nm) == ns \in DOMAIN allnames /\ OD_find(allnames[ns], nm) /= 0

\* C2: resolving an unregistered string fails unless noexcept is requested,
\* and yields None only when it is
C2_MissingNameRaises ==
    (/\ result.op = "resolvename"
     /\ result.arg.name.t = "str"
     /\ ~Registered(result.arg.namespace, result.arg.name.s))
    => IF result.arg.noexcept THEN result.exc = "" /\ result.val = None
       ELSE result.exc /= ""

\* C3: an integer resolves to the entity at that insertion position when it
\* is a position (0 <= i < size), and fails for every other integer
C3_IndexInRange ==
    (result.op = "resolvename" /\ result.arg.name.t = "int")
    => LET ns == result.arg.namespace
           i  == result.arg.name.i
       IN  IF ns \in DOMAIN allnames /\ 0 <= i /\ i < Len(allnames[ns])
           THEN result.exc = "" /\ result.val = allnames[ns][i + 1].ref
           ELSE result.exc /= ""

\* the objects of the class behind a namespace
Heap(ns) ==
    IF ns = "gearstyle" THEN styles
    ELSE IF ns = "axle" THEN axles
    ELSE IF ns = "gearpair" THEN pairs
    ELSE IF ns = "plate" THEN plates
    ELSE IF ns = "extrapart" THEN extras
    ELSE comps

RegNamespaces == {"gearstyle", "axle", "gearpair", "axlecomp", "plate", "extrapart"}

\* the namespace a constructor registers in
OpNamespace(op) == IF op = "hourhand" THEN "extrapart" ELSE op

\* every constructed object is found under its name unless a later object
\* of the same name replaced it, and no name has two entries
RegistryLatest ==
    \A ns \in RegNamespaces :
        /\ Len(Heap(ns)) > 0 => ns \in DOMAIN allnames
        /\ ns \in DOMAIN allnames =>
            /\ \A i, j \in 1..Len(allnames[ns]) :
                    allnames[ns][i].name = allnames[ns][j].name => i = j
            /\ \A k \in 1..Len(Heap(ns)) :
                    \E i \in 1..Len(allnames[ns]) :
                        /\ allnames[ns][i].name = Heap(ns)[k].name
                        /\ allnames[ns][i].ref.cls = ns
                        /\ allnames[ns][i].ref.ix >= k
                        /\ Heap(ns)[allnames[ns][i].ref.ix].name = Heap(ns)[k].name
            /\ resolvename(World, ns, StrArg(Heap(ns)[Len(Heap(ns))].name), FALSE)
                    = Done(World, Ref(ns, Len(Heap(ns))))

\* a step never moves or removes a name, and adds at most one at the end
PositionsKept ==
    \A ns \in DOMAIN allnames :
        /\ ns \in DOMAIN allnames'
        /\ Len(allnames'[ns]) \in {Len(allnames[ns]), Len(allnames[ns]) + 1}
        /\ \A i \in 1..Len(allnames[ns]) : allnames'[ns][i].name = allnames[ns][i].name

\* re-declaring a used name adds no entry
Redeclared(ns) ==
    /\ OpNamespace(result'.op) = ns
    /\ ns \in DOMAIN allnames
    /\ OD_find(allnames[ns], result'.arg.name) /= 0

\* C4: each namespace maps every name to the most recently constructed
\* entity of that name; a re-used name replaces the entry in place
C4_LatestWins ==
    [][/\ RegistryLatest'
       /\ PositionsKept
       /\ \A ns \in RegNamespaces :
            Redeclared(ns) =>
                /\ Len(allnames'[ns]) = Len(allnames[ns])
                /\ allnames'[ns][OD_find(allnames[ns], result'.arg.name)].ref
                        = Ref(ns, Len(Heap(ns)) + 1)
                /\ ns \in {"gearstyle", "plate", "extrapart"} => result'.exc = ""]_vars

\* a name that was declared twice and is not the last entry of its namespace
C4_Witness ==
    \E ns \in RegNamespaces :
        /\ ns \in DOMAIN allnames
        /\ OpNamespace(result.op) = ns
        /\ allnames[ns][Len(allnames[ns])].name /= result.arg.name
        /\ \E i \in 1..(Len(allnames[ns]) - 1) :
                /\ allnames[ns][i].ref.ix = Len(Heap(ns))
                /\ \E k \in 1..(Len(Heap(ns)) - 1) :
                        Heap(ns)[k].name = allnames[ns][i].name

\* the discriminant of the pitch formula from the squared centre distance
Discriminant(a, b, dd) == (dd - 4) * a * a * b * b - 2 * a * b * b * b - 2 * a * a * a * b

\* the calls made once declaration is finished
GenerationOps ==
    {"resolvename", "yieldunit", "gearpair.generate", "axlecomp.generate",
     "plate.generate", "hourhand.generate"}

\* C5: no resolve, selection or generate call adds, removes or replaces an
\* entry of the registry
C5_RegistryReadOnly ==
    [][result'.op \in GenerationOps => allnames' = allnames]_vars

\* a component was generated and left a computed top in one of its parts
C5_Witness ==
    /\ result.op = "axlecomp.generate"
    /\ result.exc = ""
    /\ \E i \in 1..Len(comps[result.arg].parts) : comps[result.arg].parts[i].top /= <<>>

\* the closed form of the pitch for a given radicand, in thousandths
ClosedForm(a, b, dist, radicand) ==
    LET den == a * b * b + a * a * b
        sc  == SqrtScale(radicand, den)
    IN  FixDiv(180 * dist * a * b, den) + FixDiv(180 * ISqrt(radicand * sc * sc), sc * den)

\* the radicand with the signs of the prose formula
ProseRadicand(a, b, dist) ==
    0 - 2 * a * b * b * b + (dist * dist - 4) * a * a * b * b + 2 * a * a * a * b

\* the original statement of C6: the pitch is the closed form over the
\* radicand -2ab^3 + (D^2-4)a^2b^2 + 2a^3b
C6_ProseClosedForm ==
    (/\ result.op = "fit_spur_gears"
     /\ ProseRadicand(result.arg.teetha, result.arg.teethb, result.arg.spacing) >= 0)
    => /\ result.exc = ""
       /\ result.val = ClosedForm(result.arg.teetha, result.arg.teethb, result.arg.spacing,
                ProseRadicand(result.arg.teetha, result.arg.teethb, result.arg.spacing))

\* C6: for positive tooth counts and a non-negative radicand the pitch is
\* the closed form over the radicand -2ab^3 + (D^2-4)a^2b^2 - 2a^3b
C6_ClosedForm ==
    (/\ result.op = "fit_spur_gears"
     /\ Discriminant(result.arg.teetha, result.arg.teethb, sqr(result.arg.spacing)) >= 0)
    => /\ result.exc = ""
       /\ result.val = ClosedForm(result.arg.teetha, result.arg.teethb, result.arg.spacing,
                Discriminant(result.arg.teetha, result.arg.teethb,
                             sqr(result.arg.spacing)))

\* a pitch solved for two different tooth counts
C6_Witness ==
    /\ result.op = "fit_spur_gears"
    /\ result.exc = ""
    /\ result.arg.teetha < result.arg.teethb
    /\ result.val > 0

\* the gear of n teeth cut at the solved pitch
FittedGear == [teeth |-> result.arg.teetha, cpitch |-> result.val]

\* the original statement of C7: for two equal gears the outer radius at
\* the solved pitch is half the centre distance, to within one percent
C7_OuterIsHalfDistance ==
    (/\ result.op = "fit_spur_gears"
     /\ result.exc = ""
     /\ result.arg.teetha = result.arg.teethb)
    => Abs(outerRadius(World, FittedGear) - 500 * result.arg.spacing) * 100
            <= 500 * result.arg.spacing

\* C7: for two equal gears of n teeth the pitch radius n*p/360 lies at most
\* 2/D below D/2 and the outer radius is the pitch radius times (n+2)/n;
\* for n = 20, D = 40 the outer radius is 21.97
C7_PitchRadiusIsHalfDistance ==
    (/\ result.op = "fit_spur_gears"
     /\ result.exc = ""
     /\ result.arg.teetha = result.arg.teethb)
    => LET n == result.arg.teetha
           dist == result.arg.spacing
           r == (n * result.val) \div 360
           outer == outerRadius(World, FittedGear)
       IN  /\ r <= 500 * dist + 5
           /\ r * dist >= 500 * dist * dist - 2000 - 5 * dist
           /\ Abs(outer * n - r * (n + 2)) <= 5 * n
           /\ (n = 20 /\ dist = 40) => Abs(outer - 21972) <= 5

\* the pitch solved for two gears of 20 teeth at distance 40
C7_Witness ==
    /\ result.op = "fit_spur_gears"
    /\ result.exc = ""
    /\ result.arg = [teetha |-> 20, teethb |-> 20, spacing |-> 40]

\* the two axles a gearpair declaration names, when both resolve to axles
PairAxles(d) ==
    LET rp == resolvename(World, "axle", d.prim_axle, FALSE)
        rs == resolvename(World, "axle", d.seco_axle, FALSE)
    IN  IF rp.exc = "" /\ rs.exc = "" /\ rp.val.cls = "axle" /\ rs.val.cls = "axle"
        THEN <<axles[rp.val.ix], axles[rs.val.ix]>>
        ELSE <<>>

PairDiscriminant(d) ==
    LET ax == PairAxles(d)
    IN  Discriminant(d.primteeth, d.secoteeth,
                     (ax[1].x - ax[2].x) * (ax[1].x - ax[2].x)
                     + (ax[1].y - ax[2].y) * (ax[1].y - ax[2].y))

\* C8: a gearpair declaration is rejected with a math domain error exactly
\* when the discriminant is negative, and then the pair has no gears; with
\* a non-negative discriminant and both styles declared it succeeds
C8_DomainError ==
    (result.op = "gearpair" /\ PairAxles(result.arg) /= <<>>)
    => /\ (result.exc = "ValueError: math domain error")
            <=> (PairDiscriminant(result.arg) < 0)
       /\ PairDiscriminant(result.arg) < 0 =>
            /\ pairs[Len(pairs)].primgear = <<>>
            /\ pairs[Len(pairs)].secogear = <<>>
       /\ (/\ PairDiscriminant(result.arg) >= 0
           /\ Registered("gearstyle", "small")
           /\ Registered("gearstyle", "large")) => result.exc = ""

\* a rejected pair on two axles at the same position
C8_Witness ==
    /\ result.op = "gearpair"
    /\ PairAxles(result.arg) /= <<>>
    /\ PairAxles(result.arg)[1].x = PairAxles(result.arg)[2].x
    /\ PairAxles(result.arg)[1].y = PairAxles(result.arg)[2].y
    /\ result.exc = "ValueError: math domain error"

StyleName(g) == styles[g.style].name

\* C9: the gear with fewer teeth has style small, the other large, a tie
\* favours the primary; both gears carry the same pitch and base offset
C9_Styles ==
    \A i \in 1..Len(pairs) :
        pairs[i].stage = 3 =>
            LET pg == pairs[i].primgear[1]
                sg == pairs[i].secogear[1]
            IN  /\ pg.teeth < sg.teeth => StyleName(pg) = "small" /\ StyleName(sg) = "large"
                /\ pg.teeth > sg.teeth => StyleName(pg) = "large" /\ StyleName(sg) = "small"
                /\ pg.teeth = sg.teeth => StyleName(pg) = "small" /\ StyleName(sg) = "large"
                /\ StyleName(pg) /= StyleName(sg)
                /\ pg.cpitch = sg.cpitch
                /\ pg.baseoffset = sg.baseoffset

\* a completed pair of two gears with the same tooth count
C9_Witness ==
    /\ result.op = "gearpair"
    /\ result.exc = ""
    /\ pairs[result.val.ix].stage = 3
    /\ pairs[result.val.ix].primgear[1].teeth = pairs[result.val.ix].secogear[1].teeth

\* C10: the primary gear is generated with rotation = bearing from the
\* primary to the secondary axle, the secondary with bearing + 180 + 180/teeth
C10_Rotation ==
    (result.op = "gearpair.generate" /\ result.exc = ""
        /\ pairs[result.arg.pair].stage = 3)
    => LET p == pairs[result.arg.pair]
           bearing == angleToLoc(axles[p.primgear[1].axle], axles[p.secogear[1].axle])
           rotprim == bearing
           rotseco == bearing + 180000 + 180000 \div p.secogear[1].teeth
       IN  /\ result.arg.gears = "prim" => result.val[1].rot = rotprim
           /\ result.arg.gears = "seco" => result.val[1].rot = rotseco
           /\ result.arg.gears = "both" =>
                result.val[1].rot = rotprim /\ result.val[2].rot = rotseco

\* both gears of a pair generated, on axles that are not along the x axis
C10_Witness ==
    /\ result.op = "gearpair.generate"
    /\ result.exc = ""
    /\ result.arg.gears = "both"
    /\ result.val[1].rot \notin {0, 180000}

(***************************************************************************)
(* C11: a plate declared with thickness t and z-offset z stores            *)
(* zbase = z + t and thickness = -t when t < 0, and zbase = z and          *)
(* thickness = t otherwise; the stored thickness is never negative and     *)
(* zbase + thickness is z when t < 0 and z + t otherwise.                  *)
(***************************************************************************)
C11_PlateBaseline ==
    (result.op = "plate" /\ result.exc = "") =>
        LET p == plates[result.val.ix]
            t == result.arg.thickness
            z == result.arg.zoffset
        IN  /\ t < 0 => p.zbase = z + t /\ p.thickness = 0 - t
            /\ t >= 0 => p.zbase = z /\ p.thickness = t
            /\ p.thickness >= 0
            /\ p.zbase + p.thickness = (IF t < 0 THEN z ELSE z + t)

C11_Witness ==
    /\ result.op = "plate"
    /\ result.exc = ""
    /\ result.arg.thickness < 0
    /\ plates[result.val.ix].zbase = result.arg.zoffset + result.arg.thickness

\* the components of an axle whose comptop() has a value
Topped(a) ==
    {axles[a].compolist[i] : i \in {j \in 1..Len(axles[a].compolist) :
                                      comptop(World, axles[a].compolist[j]).exc = ""}}

(***************************************************************************)
(* C12: getpadheight(baseup=True) returns the lowest base-z over all the   *)
(* components on the axle, getpadheight(baseup=False) returns the highest  *)
(* top-z over all of them, and either returns None when the axle carries   *)
(* no component.                                                           *)
(***************************************************************************)
C12_PadHeightExtremes ==
    (result.op = "axle.getpadheight" /\ result.exc = "") =>
        LET a == result.arg.axle
            n == Len(axles[a].compolist)
        IN  /\ n = 0 => result.val = <<>>
            /\ (n > 0 /\ result.arg.baseup) =>
                    /\ \E i \in 1..n : result.val = <<BaseAt(axles[a], i).val>>
                    /\ \A i \in 1..n : BaseAt(axles[a], i).exc = "" =>
                                            result.val[1] <= BaseAt(axles[a], i).val
            /\ (n > 0 /\ ~result.arg.baseup) =>
                    /\ \E c \in Topped(a) : result.val = <<comptop(World, c).val>>
                    /\ \A c \in Topped(a) : comptop(World, c).val <= result.val[1]

\* the last call was made on a part of the given type
OnPart(op, ptype) ==
    /\ result.op = op
    /\ comps[result.arg.comp].parts[result.arg.part].ptype = ptype

(***************************************************************************)
(* C13: an auto-spacer at index i is placed at z = top of part i-1 minus   *)
(* FIDGET with height = base of part i+1 minus top of part i-1; a sloped   *)
(* spacer tapers from the inner radius of the gear below to the outer      *)
(* radius of the gear above, any other is a plain cylinder at the outer    *)
(* radius of the gear above.                                               *)
(***************************************************************************)
C13_AutoSpacer ==
    (OnPart("part.generate", "autospacer") /\ result.exc = "") =>
        LET parts == comps[result.arg.comp].parts
            below == parts[result.arg.part - 1].gear[1]
            above == parts[result.arg.part + 1].gear[1]
        IN  /\ result.val.shape = "cylinder"
            /\ result.val.z = geartop(World, below) - FIDGET
            /\ result.val.h = gearbase(World, above) - geartop(World, below)
            /\ result.val.r2 = outerRadius(World, above)
            /\ result.val.r1 = IF parts[result.arg.part].sloped
                               THEN innerRadius(World, below)
                               ELSE outerRadius(World, above)

\* a sloped spacer and a plain one have been generated between two gears
C13_Witness ==
    /\ OnPart("part.generate", "autospacer")
    /\ result.exc = ""
    /\ comps[result.arg.comp].parts[result.arg.part].sloped
    /\ result.val.r1 /= result.val.r2
    /\ result.val.h > 0

\* the component of the last call is the last one of its axle's list
LastOnAxle ==
    LET c == result.arg.comp
    IN  /\ comps[c].axle.cls = "axle"
        /\ Len(axles[comps[c].axle.ix].compolist) > 0
        /\ axles[comps[c].axle.ix].compolist[Len(axles[comps[c].axle.ix].compolist)] = c

(***************************************************************************)
(* C14: a part whose neighbour does not exist fails instead of yielding a  *)
(* value or geometry: generate() of an auto-spacer at the first or the     *)
(* last index of its component raises, and so do parttop() and generate()  *)
(* of a pad-up part whose component is the last one on its axle.           *)
(***************************************************************************)
C14_MissingNeighbourFails ==
    /\ ( /\ OnPart("part.generate", "autospacer")
         /\ result.arg.part \in {1, Len(comps[result.arg.comp].parts)} )
            => result.exc /= "" /\ result.val = None
    /\ ( /\ OnPart("parttop", "padup") \/ OnPart("part.generate", "padup")
         /\ LastOnAxle )
            => result.exc /= "" /\ result.val = None

\* a spacer that opens its component, with gears after it, has been asked for
\* its geometry
C14_Witness ==
    /\ OnPart("part.generate", "autospacer")
    /\ result.arg.part = 1
    /\ Len(comps[result.arg.comp].parts) = 3
    /\ \A i \in 2..3 : comps[result.arg.comp].parts[i].ptype = "gear"
    /\ result.exc = "AssertionError"

\* the pad-up parts of the declared components, as <<component, part>>
PadUps ==
    {cp \in (1..Len(comps)) \X (1..4) :
        /\ cp[2] <= Len(comps[cp[1]].parts)
        /\ comps[cp[1]].parts[cp[2]].ptype = "padup"}

\* the declaration pass is over: a part or an axle has been queried
Declared == result.op \notin {"", "axlecomp"}

C16_PadToPlate ==
    LET c == result.arg.comp
        i == result.arg.part
    IN  /\ (OnPart("parttop", "padplate") /\ result.exc = "") =>
                result.val = plates[comps[c].parts[i].toPlate.ix].zbase
        /\ (OnPart("part.generate", "padplate") /\ result.exc = "") =>
                /\ result.val.h = plates[comps[c].parts[i].toPlate.ix].zbase
                                    - geartop(World, comps[c].parts[i - 1].gear[1])
                /\ result.val.h >= 0

\* the pad between a gear that ends at 2.5 and the plate at 16 has been generated
C16_Witness ==
    /\ OnPart("part.generate", "padplate")
    /\ result.exc = ""
    /\ plates[comps[result.arg.comp].parts[result.arg.part].toPlate.ix].zbase = 16000
    /\ geartop(World, comps[result.arg.comp].parts[result.arg.part - 1].gear[1]) = 2500
    /\ result.val.h = 13500

\* two non-negative floats differ by less than 2^-48
Close(x, y) ==
    IF BigLess(x, y) THEN BigLess(BigSub(y, x), BigPow2(LimbBits))
    ELSE BigLess(BigSub(x, y), BigPow2(LimbBits))

(***************************************************************************)
(* C17: when |chamtop| + |chambase| exceeds |h| the two depths are scaled  *)
(* so that they sum to |h| and no straight section remains; otherwise they *)
(* are used as given and the straight section has height                   *)
(* |h| - |chamtop| - |chambase| (h = 10 with 2 and 2: 2 + 6 + 2; h = 3     *)
(* with 2 and 2: 1.5 + 1.5).                                               *)
(***************************************************************************)
C17_ChamferSections ==
    result.op = "chamfcylinder" =>
        LET top == ChamferDepth(result.arg.chamtop)
            base == ChamferDepth(result.arg.chambase)
            height == Abs(result.arg.h)
            v == result.val
        IN  IF top + base > height
            THEN /\ Close(BigAdd(v.atop.mag, v.abase.mag), BigOfInt(height))
                 /\ \A i \in 1..Len(v.sections) : v.sections[i] /= "straight"
            ELSE /\ v.atop = FloatOfInt(top)
                 /\ v.abase = FloatOfInt(base)
                 /\ v.mainheight = FloatOfInt(height - top - base)
                 /\ (height - top - base > 0) <=>
                        \E i \in 1..Len(v.sections) : v.sections[i] = "straight"

\* the angle is that of a vertex ang_from + k * 360 / sides, to 3/10000 rad
OnVertex(ang, rfrom, sides) ==
    \E k \in 0..(2 * sides) :
        Abs(ToE4(ang) - ToE4(rfrom) - (2 * PiE4 * k) \div sides) <= 3

(***************************************************************************)
(* C18: for ang_from < ang_to polycircle (inner mode) yields a finite      *)
(* sequence whose first point is the circle point at ang_from and whose    *)
(* last point is the circle point at ang_to; the points in between are     *)
(* polygon vertices at ang_from + k * 360 / sides, and no point before the *)
(* last lies within 0.6 * r * sin(180 / sides) of the end point.           *)
(***************************************************************************)
C18_ArcPoints ==
    ( /\ result.op = "polycircle"
      /\ result.arg.ang_from < result.arg.ang_to
      /\ result.arg.sides > 2
      /\ ~result.arg.isouter ) =>
        LET pts == result.val
            r == result.arg.rad
            rfrom == radians(result.arg.ang_from)
            rto == radians(result.arg.ang_to)
        IN  /\ result.exc = ""
            /\ Len(pts) >= 1
            /\ pts[1] = [r |-> r, ang |-> rfrom]
            /\ pts[Len(pts)] = [r |-> r, ang |-> rto]
            /\ \A i \in 2..(Len(pts) - 1) :
                    pts[i].r = r /\ OnVertex(pts[i].ang, rfrom, result.arg.sides)
            /\ \A i \in 1..(Len(pts) - 1) :
                    Chord(r, pts[i].ang, rto)
                        >= (r * SinE4(PiE4 \div result.arg.sides) * 6) \div 100000

\* the gear pair and the axle a declaration names, <<>> if not registered
NamedPair(partdef) ==
    IF Registered("gearpair", partdef.gearpr.s)
    THEN <<pairs[OD_get(allnames["gearpair"], partdef.gearpr.s).ix]>>
    ELSE <<>>

NamedAxle(d) ==
    IF Registered("axle", d.caxle.s)
    THEN <<OD_get(allnames["axle"], d.caxle.s).ix>>
    ELSE <<>>

\* the pair has a gear on the axle
HasRole(p, a) == p.primgear[1].axle = a \/ p.secogear[1].axle = a

\* part i of the declaration is a gear of a pair with no gear on the
\* component's axle, and no part before it is
FirstWithoutRole(d, i) ==
    /\ NamedAxle(d) /= <<>>
    /\ \A j \in 1..i : d.partlist[j].parttype = "gear" => NamedPair(d.partlist[j]) /= <<>>
    /\ d.partlist[i].parttype = "gear"
    /\ ~HasRole(NamedPair(d.partlist[i])[1], NamedAxle(d)[1])
    /\ \A j \in 1..(i - 1) :
            d.partlist[j].parttype = "gear"
                => HasRole(NamedPair(d.partlist[j])[1], NamedAxle(d)[1])

(***************************************************************************)
(* C19: declaring a gear part whose gearpair has no gear on the            *)
(* component's axle fails with the error that names the gearpair and the   *)
(* axle; axlegearisprim(axle) returns True exactly when the axle carries   *)
(* the primary gear and False exactly when it carries the secondary gear.  *)
(***************************************************************************)
C19_GearRole ==
    /\ (result.op = "axlecomp"
            /\ \E i \in 1..Len(result.arg.partlist) : FirstWithoutRole(result.arg, i))
        => result.exc = "ValueError: gearpair has no gear on axle"
    /\ result.op = "gearpair.axlegearisprim" =>
        LET p == pairs[result.arg.pair]
            a == result.arg.axle
        IN  /\ (result.exc = "" /\ result.val = TRUE) <=> p.primgear[1].axle = a
            /\ (result.exc = "" /\ result.val = FALSE) <=> p.secogear[1].axle = a
            /\ ~HasRole(p, a) =>
                    /\ result.exc = "ValueError: gearpair has no gear on axle"
                    /\ result.val = [gearpair |-> p.name, axle |-> axles[a].name]

\* a component with a gear of g1 has been declared on a3, where g1 has no gear
C19_Witness ==
    /\ result.op = "axlecomp"
    /\ \E i \in 1..Len(result.arg.partlist) : FirstWithoutRole(result.arg, i)
    /\ result.exc = "ValueError: gearpair has no gear on axle"
    /\ result.arg.caxle = StrArg("a3")

\* the names of the components of a list, in its order
ListNames(compolist) == [i \in 1..Len(compolist) |-> comps[compolist[i]].name]

(***************************************************************************)
(* C20: getcompindex(comp) returns the position of comp in the axle's      *)
(* ordered list when it is there, and fails, re-raising after it has       *)
(* reported the component, the axle's name and the ordered list of names,  *)
(* when it is not; the list is left unchanged in both cases.               *)
(***************************************************************************)
C20_CompIndex ==
    [][result'.op = "axle.getcompindex" =>
        LET a == result'.arg.axle
            c == result'.arg.comp
            list == axles[a].compolist
        IN  /\ axles' = axles
            /\ comps' = comps
            /\ (\E i \in 1..Len(list) : list[i] = c) =>
                    /\ result'.exc = ""
                    /\ result'.val \in 0..(Len(list) - 1)
                    /\ list[result'.val + 1] = c
                    /\ \A j \in 1..result'.val : list[j] /= c
            /\ (\A i \in 1..Len(list) : list[i] /= c) =>
                    /\ result'.exc = "ValueError: not in list"
                    /\ result'.val = [comp |-> comps[c].name, axle |-> axles[a].name,
                                      names |-> ListNames(list)]]_vars

\* a component has been looked up on an axle that carries others but not it
C20_Witness ==
    /\ result.op = "axle.getcompindex"
    /\ result.exc = "ValueError: not in list"
    /\ Len(axles[result.arg.axle].compolist) >= 1
    /\ result.val.names = ListNames(axles[result.arg.axle].compolist)

\* the entity one int or str of a selector stands for: the one at insertion
\* position i (from 0), or the one registered under the name
UnitOf(ns, unitid) ==
    IF unitid.t = "int" THEN allnames[ns][unitid.i + 1].ref
    ELSE (CHOOSE it \in {allnames[ns][k] : k \in 1..Len(allnames[ns])} :
              it.name = unitid.s).ref

\* the entities one (namespace, selector) pair stands for
GroupOf(pgroup) ==
    IF pgroup.sel.t = "all"
    THEN [k \in 1..Len(allnames[pgroup.ns]) |-> allnames[pgroup.ns][k].ref]
    ELSE IF pgroup.sel.t = "list"
    THEN [k \in 1..Len(pgroup.sel.many) |-> UnitOf(pgroup.ns, pgroup.sel.many[k])]
    ELSE <<UnitOf(pgroup.ns, pgroup.sel.one)>>

RECURSIVE Expansion(_)
Expansion(plist) ==
    IF plist = <<>> THEN <<>> ELSE GroupOf(Head(plist)) \o Expansion(Tail(plist))

\* the ints and strs a selection names, each with its namespace
UnitsOf(plist) ==
    UNION { IF plist[k].sel.t = "all" THEN {}
            ELSE IF plist[k].sel.t = "list"
            THEN {[ns |-> plist[k].ns, u |-> plist[k].sel.many[j]] :
                      j \in 1..Len(plist[k].sel.many)}
            ELSE {[ns |-> plist[k].ns, u |-> plist[k].sel.one]} : k \in 1..Len(plist) }

\* every int of the selection is an insertion position of its namespace
\* and every str a registered name
Selectable(plist) ==
    /\ \A k \in 1..Len(plist) : plist[k].ns \in DOMAIN allnames
    /\ \A x \in UnitsOf(plist) :
        \/ x.u.t = "int" /\ 0 <= x.u.i /\ x.u.i < Len(allnames[x.ns])
        \/ x.u.t = "str" /\ Registered(x.ns, x.u.s)

\* C21: yieldunit expands a list of (namespace, selector) pairs, in the order
\* of the pairs, into the entities they stand for: all gives every entity of
\* the namespace in insertion order, an integer the entity at that insertion
\* position, a name the entity registered under it, and a list the entities
\* of its elements in list order, repeated elements repeated
C21_SelectionExpansion ==
    (result.op = "yieldunit" /\ Selectable(result.arg))
    => /\ result.exc = ""
       /\ result.val = Expansion(result.arg)

\* a selection of three pairs, a list with a repeated element first, expanded
C21_Witness ==
    /\ result.op = "yieldunit"
    /\ Selectable(result.arg)
    /\ Len(result.arg) = 3
    /\ result.arg[1].sel.t = "list"
    /\ result.arg[2].sel.t = "all"
    /\ Len(result.val) > 4
    /\ result.val[1] = result.val[3]
    /\ result.val[1] /= result.val[2]

\* where the insertion rule puts a component of base z cbase in a list:
\* before the first entry with a strictly greater base, else at the end
RulePosition(compolist, cbase) ==
    LET greater == {i \in 1..Len(compolist) :
                        compbase(World, comps[compolist[i]]).val > cbase}
    IN  IF greater = {} THEN Len(compolist) + 1
        ELSE CHOOSE i \in greater : \A j \in greater : i <= j

\* C22: a declared component goes into its axle's list immediately before
\* the first component with a strictly greater base z, at the end if there
\* is none, so after every component of equal base; the components already
\* listed keep their order, and no other list changes
C22_InsertBeforeGreater ==
    [][\A a \in 1..Len(axles) :
        IF /\ result'.op = "axlecomp"
           /\ result'.exc = ""
           /\ comps'[Len(comps')].axle = Ref("axle", a)
        THEN axles'[a].compolist =
                InsertAt(axles[a].compolist,
                         RulePosition(axles[a].compolist,
                                      compbase(World, comps[Len(comps)]).val'),
                         Len(comps'))
        ELSE axles'[a].compolist = axles[a].compolist]_vars

\* the component just declared stands in the middle of its axle's list,
\* behind one of equal base and before one of greater base
C22_Witness ==
    /\ result.op = "axlecomp"
    /\ result.exc = ""
    /\ \E a \in 1..Len(axles) :
        \E k \in 2..(Len(axles[a].compolist) - 1) :
            /\ axles[a].compolist[k] = Len(comps)
            /\ BaseAt(axles[a], k - 1).val = BaseAt(axles[a], k).val
            /\ BaseAt(axles[a], k + 1).val > BaseAt(axles[a], k).val

\* what one more generate() call on component c would do in this state
Regenerated(c) == axlecomp_generate(World, c)

\* C23: over any number of generate() calls on an axle component the cut set
\* is computed once, by the first call that completes, and stored; every
\* later call returns the stored cut set and leaves it stored, while the
\* union is built from the parts again; a component without cut sources
\* gives the union alone, with no cut set to subtract
C23_CutsCachedUnionRebuilt ==
    /\ (result.op = "axlecomp.generate" /\ result.exc = "")
            => comps[result.arg].cutout = <<result.val.cutout>>
    /\ \A c \in 1..Len(comps) :
        \E g \in {Regenerated(c)} :
            g.exc = "" =>
                /\ g.val.union = axlecomp_union(World, c, 1, <<>>).val
                /\ g.w.comps[c].cutout = <<g.val.cutout>>
                /\ comps[c].cutout /= <<>> => g.w.comps[c].cutout = comps[c].cutout
                /\ Len(comps[c].finalcuts) = 0 => g.val.cutout = <<>>

\* a component with cut sources has been generated, its cut set is stored
\* and one more call can be made on it
C23_Witness ==
    /\ result.op = "axlecomp.generate"
    /\ result.exc = ""
    /\ Len(comps[result.arg].finalcuts) > 1
    /\ comps[result.arg].cutout = <<result.val.cutout>>
    /\ Len(result.val.cutout) > 1
    /\ Regenerated(result.arg).exc = ""
    /\ Regenerated(result.arg).val = result.val

\* the pad heights a generation has computed: the constructor stores 0 and
\* a failed computation stores None
PadHeightComputed(a) == axles[a].padheight \notin {<<0>>, <<>>}

\* C24: a pad-up part's resolved top and an axle's pad height are written
\* once, by the first read: once a value has been computed and stored, no
\* later query or generation computes or assigns it again, so no step
\* changes it
C24_WriteOnce ==
    [][/\ \A c \in 1..Len(comps) : \A i \in 1..Len(comps[c].parts) :
            comps[c].parts[i].top /= <<>>
                => comps'[c].parts[i].top = comps[c].parts[i].top
       /\ \A a \in 1..Len(axles) :
            PadHeightComputed(a) => axles'[a].padheight = axles[a].padheight]_vars

\* what the parts of one band of a plate yield, one by one, in the order
\* they were added: <<>> for a part that yields None
BandResults(partset) == [i \in 1..Len(partset) |-> trassemble(World, partset[i]).val]

\* the results of a band that are geometry, in order
RECURSIVE NonNull(_)
NonNull(results) ==
    IF results = <<>> THEN <<>> ELSE Head(results) \o NonNull(Tail(results))

\* C25: aggregation skips the parts that yield no geometry: the union of an
\* axle component holds the results of its parts in declaration order, each
\* band (hull, extra, cuts) of a plate holds exactly the non-null results of
\* its parts in the order they were added, never a null child, and a band
\* whose parts all yield nothing gives no node
C25_NullPartsSkipped ==
    /\ (result.op = "plate.generate" /\ result.exc = "") =>
        LET pl == plates[result.arg]
            hull == NonNull(BandResults(pl.hull))
            extra == NonNull(BandResults(pl.extra))
            cuts == NonNull(BandResults(pl.cuts))
        IN  IF hull = <<>> /\ extra = <<>> THEN result.val = <<>>
            ELSE result.val = <<[hull |-> hull, extra |-> extra, cuts |-> cuts]>>
    /\ (result.op = "axlecomp.generate" /\ result.exc = "") =>
        /\ Len(result.val.union) = Len(comps[result.arg].parts)
        /\ \A i \in 1..Len(result.val.union) :
            result.val.union[i] = part_generate(World, result.arg, i).val

\* a plate was generated whose extra band holds a part that yields nothing
\* between two that yield geometry, while the extra band of another plate
\* has parts that all yield nothing
C25_Witness ==
    /\ result.op = "plate.generate"
    /\ result.exc = ""
    /\ \E pl \in 1..Len(plates) :
        plates[pl].extra /= <<>> /\ NonNull(BandResults(plates[pl].extra)) = <<>>
    /\ \E i \in 2..(Len(plates[result.arg].extra) - 1) :
        /\ BandResults(plates[result.arg].extra)[i] = <<>>
        /\ BandResults(plates[result.arg].extra)[i - 1] /= <<>>
        /\ BandResults(plates[result.arg].extra)[i + 1] /= <<>>
    /\ Len(result.val[1].extra) = Len(plates[result.arg].extra) - 1

\* the z ranges cover [lo, hi]: they start at lo, each one that ends below
\* hi is continued by another, none leaves [lo, hi] by more than the fidget,
\* and no two share more than the fidget each of them adds; rounding three
\* lengths down to 1/1000000 can move an end by 3
Stacked(spans, lo, hi) ==
    LET S == {spans[i] : i \in 1..Len(spans)}
    IN  /\ \E s \in S : s.lo <= lo + 3
        /\ \A s \in S :
            /\ s.lo >= lo - ChamferFidget - 3
            /\ s.hi <= hi + ChamferFidget + 3
            /\ s.hi < hi - 3 =>
                    \E t \in S : t.lo <= s.hi + 3 /\ t.hi > s.hi
        /\ \A i, j \in 1..Len(spans) :
            i < j =>
                (IF spans[i].hi < spans[j].hi THEN spans[i].hi ELSE spans[j].hi)
                - (IF spans[i].lo > spans[j].lo THEN spans[i].lo ELSE spans[j].lo)
                    <= 2 * ChamferFidget + 3

\* C26: for a negative height h the sections of chamfcylinder stack along z
\* to cover [h, 0] with no gap and no overlap beyond the fidget, whichever
\* chamfers are given, as they cover [0, h] for a positive h
C26_SectionsStack ==
    (result.op = "chamfcylinder" /\ result.arg.h /= 0) =>
        IF result.arg.h < 0
        THEN Stacked(result.val.spans, result.arg.h * Micro, 0)
        ELSE Stacked(result.val.spans, 0, result.arg.h * Micro)

\* the declaration a component was built from: every name of PartCompDecls
\* belongs to one declaration
DeclOf(c) == CHOOSE d \in PartCompDecls : d.name = comps[c].name

\* part p is what makeaxpart builds from the entry partdef of a part list
BuiltFrom(p, partdef) ==
    /\ p.ptype = partdef.parttype
    /\ p.ptype = "gear" =>
            allnames["gearpair"][OD_find(allnames["gearpair"], partdef.gearpr.s)].ref.ix
                = p.gearpair
    /\ p.ptype = "autospacer" => p.sloped = partdef.sloped
    /\ p.ptype = "padup" => p.clearance = partdef.clearance
    /\ p.ptype = "padplate" =>
            allnames["plate"][OD_find(allnames["plate"], partdef.platename.s)].ref = p.toPlate

\* C27: the parts of an axle component stay in declaration order: parts[i]
\* was built from entry i of the declared part list and has partix i
\* (from 0), whatever was declared or generated afterwards
C27_PartsInDeclaredOrder ==
    \A c \in 1..Len(comps) :
        comps[c].parts /= <<>> =>
            /\ Len(comps[c].parts) = Len(DeclOf(c).partlist)
            /\ \A i \in 1..Len(comps[c].parts) :
                /\ comps[c].parts[i].partix = i - 1
                /\ comps[c].parts[i].axlecomp = c
                /\ BuiltFrom(comps[c].parts[i], DeclOf(c).partlist[i])

\* a component of four parts has been generated after a later component
\* was declared
C27_Witness ==
    /\ result.op = "axlecomp.generate"
    /\ result.exc = ""
    /\ result.arg < Len(comps)
    /\ Len(comps[result.arg].parts) = 4
    /\ comps[result.arg].parts[2].ptype = "autospacer"
    /\ comps[result.arg].parts[4].top /= <<>>

\* the structural errors of a declaration: a gear pair that cannot mesh at
\* the distance of its axles, a gear part whose pair has no gear on the axle
StructuralErrors ==
    {"ValueError: math domain error", "ValueError: gearpair has no gear on axle"}

\* C28: a gear pair or axle component declaration that fails with a
\* structural error leaves no partial result: the registry and every
\* axle's component list are as they were before the declaration
C28_FailedDeclarationNoTrace ==
    [][(result'.op \in {"gearpair", "axlecomp"} /\ result'.exc \in StructuralErrors)
        => /\ allnames' = allnames
           /\ \A a \in 1..Len(axles) : axles'[a].compolist = axles[a].compolist]_vars

\* the declared graph of the session with nothing generated or queried yet:
\* the same declarations made again in the same order
FreshGraph ==
    RunScript(PartScene, [c \in 1..Len(comps) |-> [cls |-> "axlecomp", d |-> DeclOf(c)]])

\* the call gave what it gives on the declared graph before any other call
AsOnFresh(fresh) ==
    /\ (fresh.exc = "") <=> (result.exc = "")
    /\ fresh.exc = "" => fresh.val = result.val

\* C29: what generating an entity gives depends on the declared graph
\* alone: it is what the same call gives when nothing was generated, listed
\* or queried before, whatever calls were made earlier and in whatever order
C29_HistoryFree ==
    /\ result.op = "plate.generate" =>
            AsOnFresh(smartPart_generate(FreshGraph, result.arg))
    /\ result.op = "axlecomp.generate" =>
            AsOnFresh(axlecomp_generate(FreshGraph, result.arg))
    /\ result.op = "parttop" =>
            AsOnFresh(parttop(FreshGraph, result.arg.comp, result.arg.part))

(***************************************************************************)
(* C30: for a full circle (ang_from = 0, ang_to = 360) in inner mode       *)
(* polycircle yields the vertices of the regular polygon, one for each of  *)
(* its sides, starting with the vertex at angle 0, and then the closing    *)
(* end point: the start vertex is not suppressed by the end-point          *)
(* proximity rule.                                                         *)
(***************************************************************************)
C30_FullCircle ==
    ( /\ result.op = "polycircle"
      /\ result.arg.ang_from = 0
      /\ result.arg.ang_to = 360
      /\ result.arg.sides > 2
      /\ ~result.arg.isouter ) =>
        LET pts == result.val
            r == result.arg.rad
            sides == result.arg.sides
        IN  /\ result.exc = ""
            /\ Len(pts) >= sides + 1
            /\ \A k \in 1..sides :
                    /\ pts[k].r = r
                    /\ Abs(ToE4(pts[k].ang) - (2 * PiE4 * (k - 1)) \div sides) <= 3
            /\ pts[Len(pts)] = [r |-> r, ang |-> radians(360)]

====
